---- MODULE Spec2Model ----
(***************************************************************************)
(* cpconfig: syncConfigs reconciles a declared map of config files with    *)
(* the file system and keeps one managed block in the ignore file.         *)
(*                                                                         *)
(* Text is modelled character by character: a string is a sequence of      *)
(* one-character strings.  The single exception is the marker text         *)
(* '# Managed by cpconfig', which is one token (MK): no other token        *)
(* sequence of the model spells it, and it starts with '#'.                *)
(*                                                                         *)
(* Seven specifications call syncConfigs: Spec with a few declarations of  *)
(* three targets, SpecIgnore from every small ignore file, SpecInput with  *)
(* keys and contents that the validation has to judge, SpecFaults on a     *)
(* disk where reading or writing a target fails, SpecMode with declared    *)
(* permission modes, SpecCli through runCli of the command line, and       *)
(* SpecRace with two invocations whose fs operations interleave.           *)
(***************************************************************************)
EXTENDS Integers, Sequences, FiniteSets, TLC

\* ------------------------------------------------------------ characters

NL == "\n"
CR == "\r"
SP == " "
HASH == "#"
SLASH == "/"
BSLASH == "\\"
DOT == "."

\* index.ts:4  const MANAGED_COMMENT = '# Managed by cpconfig'
MK == "# Managed by cpconfig"
MANAGED_COMMENT == <<MK>>

\* String.prototype.trim removes these (no tab or other blank is drawn).
IsWhitespace(c) == c \in {SP, CR, NL}

RECURSIVE trimStart(_)
trimStart(s) ==
  IF s = <<>> THEN <<>>
  ELSE IF IsWhitespace(Head(s)) THEN trimStart(Tail(s))
  ELSE s

RECURSIVE trimEnd(_)
trimEnd(s) ==
  IF s = <<>> THEN <<>>
  ELSE IF IsWhitespace(s[Len(s)]) THEN trimEnd(SubSeq(s, 1, Len(s) - 1))
  ELSE s

trim(s) == trimEnd(trimStart(s))

\* s.startsWith(prefix)
startsWith(s, prefix) ==
  /\ Len(s) >= Len(prefix)
  /\ SubSeq(s, 1, Len(prefix)) = prefix

\* line.startsWith('#'): the marker token starts with '#' as well.
startsWithHash(s) == s # <<>> /\ Head(s) \in {HASH, MK}

\* haystack.includes(needle)
includes(haystack, needle) ==
  \E i \in 1..(Len(haystack) - Len(needle) + 1) :
    SubSeq(haystack, i, i + Len(needle) - 1) = needle

\* parts.join(sep)
RECURSIVE join(_, _)
join(parts, sep) ==
  IF parts = <<>> THEN <<>>
  ELSE IF Len(parts) = 1 THEN parts[1]
  ELSE parts[1] \o sep \o join(Tail(parts), sep)

\* s.split(sep) for a one-character separator: never empty, '' gives [''].
RECURSIVE splitOn(_, _, _, _)
splitOn(s, sep, cur, acc) ==
  IF s = <<>> THEN Append(acc, cur)
  ELSE IF Head(s) = sep THEN splitOn(Tail(s), sep, <<>>, Append(acc, cur))
  ELSE splitOn(Tail(s), sep, Append(cur, Head(s)), acc)

split(s, sep) == splitOn(s, sep, <<>>, <<>>)

\* lines.filter(line => line.trim() !== '')
RECURSIVE filterNotBlank(_)
filterNotBlank(lines) ==
  IF lines = <<>> THEN <<>>
  ELSE IF trim(Head(lines)) # <<>>
    THEN <<Head(lines)>> \o filterNotBlank(Tail(lines))
  ELSE filterNotBlank(Tail(lines))

\* values.filter(Boolean) on strings: drops ''
RECURSIVE filterBoolean(_)
filterBoolean(values) ==
  IF values = <<>> THEN <<>>
  ELSE IF Head(values) # <<>>
    THEN <<Head(values)>> \o filterBoolean(Tail(values))
  ELSE filterBoolean(Tail(values))

Range(xs) == {xs[i] : i \in 1..Len(xs)}

\* ---------------------------------------------------- ignore-file text

\* content.split(/\r?\n/): the separator takes one '\r' before the '\n'.
RECURSIVE splitNewlines(_, _, _)
splitNewlines(s, cur, acc) ==
  IF s = <<>> THEN Append(acc, cur)
  ELSE IF Head(s) = NL
    THEN splitNewlines(Tail(s), <<>>,
           Append(acc, IF cur # <<>> /\ cur[Len(cur)] = CR
                       THEN SubSeq(cur, 1, Len(cur) - 1) ELSE cur))
  ELSE splitNewlines(Tail(s), Append(cur, Head(s)), acc)

\* if (lines.length > 0 && lines[lines.length - 1] === '') lines.pop()
popEmptyLast(lines) ==
  IF Len(lines) > 0 /\ lines[Len(lines)] = <<>>
  THEN SubSeq(lines, 1, Len(lines) - 1)
  ELSE lines

splitLines(content) ==
  IF content = <<>> THEN <<>>
  ELSE popEmptyLast(splitNewlines(content, <<>>, <<>>))

RECURSIVE trimTrailingEmptyLines(_)
trimTrailingEmptyLines(lines) ==
  IF Len(lines) > 0 /\ trim(lines[Len(lines)]) = <<>>
  THEN trimTrailingEmptyLines(SubSeq(lines, 1, Len(lines) - 1))
  ELSE lines

\* the two arrays hold the same values, in any order and number
arraysEqualAsSets(left, right) == Range(left) = Range(right)

arraysEqual(left, right) ==
  IF Len(left) # Len(right) THEN FALSE
  ELSE \A i \in 1..Len(left) : left[i] = right[i]

\* trimmed.replace(/^\.\//, '')
stripDotSlash(s) ==
  IF startsWith(s, <<DOT, SLASH>>) THEN SubSeq(s, 3, Len(s)) ELSE s

\* s.replace(/\\/g, '/')
backslashesToSlashes(s) ==
  [i \in 1..Len(s) |-> IF s[i] = BSLASH THEN SLASH ELSE s[i]]

\* normalizeGitignoreEntry after value.trim()
normalizeTrimmed(trimmed) ==
  IF trimmed = <<>> \/ startsWithHash(trimmed) THEN <<>>
  ELSE backslashesToSlashes(stripDotSlash(trimmed))

normalizeGitignoreEntry(value) == normalizeTrimmed(trim(value))

RECURSIVE uniqueFrom(_, _)
uniqueFrom(entries, result) ==
  IF entries = <<>> THEN result
  ELSE IF Head(entries) = <<>> \/ Head(entries) \in Range(result)
    THEN uniqueFrom(Tail(entries), result)
  ELSE uniqueFrom(Tail(entries), Append(result, Head(entries)))

uniqueNormalized(entries) == uniqueFrom(entries, <<>>)

\* the index of the last marker line instead of the first
findMarkerLast(lines) ==
  IF \E i \in 1..Len(lines) : lines[i] = MANAGED_COMMENT
  THEN CHOOSE i \in 1..Len(lines) :
         /\ lines[i] = MANAGED_COMMENT
         /\ \A j \in (i + 1)..Len(lines) : lines[j] # MANAGED_COMMENT
  ELSE 0

\* lines.findIndex(line => line === MANAGED_COMMENT), 1-based; 0 for -1
findMarker(lines) ==
  IF \E i \in 1..Len(lines) : lines[i] = MANAGED_COMMENT
  THEN CHOOSE i \in 1..Len(lines) :
         /\ lines[i] = MANAGED_COMMENT
         /\ \A j \in 1..(i - 1) : lines[j] # MANAGED_COMMENT
  ELSE 0

\* the while loop: first index after commentIndex holding a blank or '#' line
RECURSIVE scanBlockEnd(_, _)
scanBlockEnd(lines, blockEnd) ==
  IF blockEnd <= Len(lines)
     /\ ~(trim(lines[blockEnd]) = <<>> \/ startsWithHash(lines[blockEnd]))
  THEN scanBlockEnd(lines, blockEnd + 1)
  ELSE blockEnd

\* skip a single separating blank line when removing the block
skipSeparator(lines, blockEnd) ==
  IF blockEnd <= Len(lines) /\ trim(lines[blockEnd]) = <<>>
  THEN blockEnd + 1 ELSE blockEnd

\* the extraction keeping only the lines after the block
extractDroppingBefore(lines, commentIndex, blockEnd) ==
  [managedEntries |->
     filterNotBlank(SubSeq(lines, commentIndex + 1, blockEnd - 1)),
   linesWithoutBlock |->
     trimTrailingEmptyLines(SubSeq(lines, blockEnd, Len(lines)))]

\* the extraction, given commentIndex and blockEnd (1-based, blockEnd is
\* the first line after the block)
extractBetween(lines, commentIndex, blockEnd) ==
  [managedEntries |->
     filterNotBlank(SubSeq(lines, commentIndex + 1, blockEnd - 1)),
   linesWithoutBlock |->
     trimTrailingEmptyLines(SubSeq(lines, 1, commentIndex - 1)
                            \o SubSeq(lines, blockEnd, Len(lines)))]

extractAt(lines, commentIndex) ==
  IF commentIndex = 0
  THEN [managedEntries |-> <<>>,
        linesWithoutBlock |-> trimTrailingEmptyLines(lines)]
  ELSE extractBetween(lines, commentIndex,
         skipSeparator(lines, scanBlockEnd(lines, commentIndex + 1)))

extractFromLines(lines) == extractAt(lines, findMarker(lines))

extractManagedBlock(content) == extractFromLines(splitLines(content))

\* result.length > 0 ? `${result}\n` : ''
withFinalNewline(result) ==
  IF Len(result) > 0 THEN result \o <<NL>> ELSE <<>>

\* the rebuilt file with a blank line before the marker in every case
resultLinesSeparated(kept, managedEntries) ==
  IF Len(managedEntries) > 0
  THEN Append(kept, <<>>) \o <<MANAGED_COMMENT>> \o managedEntries
  ELSE kept

\* the lines of the rebuilt file, given the kept lines already trimmed
resultLines(kept, managedEntries) ==
  IF Len(managedEntries) > 0
  THEN (IF Len(kept) > 0 /\ kept[Len(kept)] # <<>>
        THEN Append(kept, <<>>) ELSE kept)
       \o <<MANAGED_COMMENT>> \o managedEntries
  ELSE kept

buildGitignoreContent(linesWithoutBlock, managedEntries) ==
  withFinalNewline(
    join(resultLines(trimTrailingEmptyLines(linesWithoutBlock),
                     managedEntries),
         <<NL>>))

\* ---------------------------------------------------------------- paths
\* POSIX semantics of node's path module; a path is a string of characters.

\* the resolved root directory (options.rootDir), as a list of segments
RootSegments == <<<<"r">>>>

\* "/seg/seg": the absolute path of a list of segments
absoluteOf(segments) ==
  IF segments = <<>> THEN <<SLASH>> ELSE <<SLASH>> \o join(segments, <<SLASH>>)

rootDir == absoluteOf(RootSegments)

\* path.isAbsolute(p)
isAbsolute(p) == p # <<>> /\ Head(p) = SLASH

\* path normalisation of a segment list from the file system root:
\* '' and '.' are dropped, '..' removes the segment before it ('/..' is '/').
RECURSIVE resolveSegments(_, _)
resolveSegments(todo, done) ==
  IF todo = <<>> THEN done
  ELSE IF Head(todo) = <<>> \/ Head(todo) = <<DOT>>
    THEN resolveSegments(Tail(todo), done)
  ELSE IF Head(todo) = <<DOT, DOT>>
    THEN resolveSegments(Tail(todo),
           IF done = <<>> THEN <<>> ELSE SubSeq(done, 1, Len(done) - 1))
  ELSE resolveSegments(Tail(todo), Append(done, Head(todo)))

\* path.resolve(rootDir, p), as segments; an absolute p replaces rootDir
resolve(from, p) ==
  IF isAbsolute(p) THEN resolveSegments(split(p, SLASH), <<>>)
  ELSE resolveSegments(from \o split(p, SLASH), <<>>)

RECURSIVE commonPrefixLen(_, _)
commonPrefixLen(a, b) ==
  IF a = <<>> \/ b = <<>> \/ Head(a) # Head(b) THEN 0
  ELSE 1 + commonPrefixLen(Tail(a), Tail(b))

\* path.relative(from, to) on resolved segment lists, k segments shared
relativeAfter(from, to, k) ==
  join([i \in 1..(Len(from) - k) |-> <<DOT, DOT>>]
       \o SubSeq(to, k + 1, Len(to)),
       <<SLASH>>)

relative(from, to) == relativeAfter(from, to, commonPrefixLen(from, to))

\* path.dirname of an absolute path given as segments
dirname(segments) ==
  IF segments = <<>> THEN <<>> ELSE SubSeq(segments, 1, Len(segments) - 1)

\* path.sep is '/': split(path.sep).join('/') is the identity on POSIX;
\* then posix.replace(/^\.\/(.*)/, '$1')
normalizeRelativePath(relativePath) ==
  stripDotSlash(join(split(relativePath, SLASH), <<SLASH>>))

\* resolveGitignorePath(rootDir, undefined): path.join(rootDir, '.gitignore')
GitignoreName == <<DOT, "g">>
resolveGitignorePath == absoluteOf(Append(RootSegments, GitignoreName))

\* ------------------------------------------------------- declared input
\* A declared entry: [rawPath, contents, gitignore, sentinel].
\* contents is [type |-> "string", value |-> string], or
\* [type |-> "function", returns, calls]: a function that was called calls
\* times before and returns, call after call, the values of returns in
\* turn; a returned value is [kind |-> "string" | "promise" | "other",
\* value |-> string].  [type |-> "other"] is a contents that is neither,
\* [type |-> "absent"] an entry without a contents property.
\* sentinel <<>> stands for no sentinel.

NoSentinel == <<>>

\* the value of the first call of the function, kept for every later one
returnedFirst(rawContents) == rawContents.returns[1]

\* rawContents(): what this call of the function returns
returned(rawContents) ==
  rawContents.returns[(rawContents.calls % Len(rawContents.returns)) + 1]

\* resolveContents after const value = rawContents()
resolveReturned(value) ==
  IF value.kind = "string"
    THEN [ok |-> TRUE, value |-> value.value, invoked |-> 1]
  ELSE IF value.kind = "promise"
    THEN [ok |-> FALSE, error |-> "Async contents are not supported"]
  ELSE [ok |-> FALSE, error |-> "must return a string"]

\* resolveContents(rawContents, filePath); invoked counts the calls of
\* rawContents that it made
resolveContents(rawContents) ==
  IF rawContents.type = "string"
    THEN [ok |-> TRUE, value |-> rawContents.value, invoked |-> 0]
  ELSE IF rawContents.type = "function"
    THEN resolveReturned(returned(rawContents))
  ELSE [ok |-> FALSE, error |-> "must be a string or a function"]

\* the declared sentinel must occur in the declared contents
sentinelInContents(contents, sentinel) ==
  sentinel = NoSentinel \/ includes(contents, sentinel)

\* segments.some(segment => segment === '..')
someDotDot(segments) == \E i \in 1..Len(segments) : segments[i] = <<DOT, DOT>>

\* only a path two levels above the root counts as outside
escapesRootTwoLevels(relativePath) ==
  startsWith(relativePath, <<DOT, DOT, SLASH, DOT, DOT>>)

\* relativePath.startsWith('..') ||
\* relativePath.split(path.sep).some(segment => segment === '..')
escapesRoot(relativePath) ==
  \/ startsWith(relativePath, <<DOT, DOT>>)
  \/ someDotDot(split(relativePath, SLASH))

\* file.gitignoreEntry whatever the entry says
gitignoreEntryAlways(entry, normalizedRelative) ==
  [isNull |-> FALSE, value |-> normalizedRelative]

\* file.gitignoreEntry: null when the entry says gitignore: false
gitignoreEntryOf(entry, normalizedRelative) ==
  IF entry.gitignore = FALSE
  THEN [isNull |-> TRUE, value |-> <<>>]
  ELSE [isNull |-> FALSE, value |-> normalizedRelative]

\* the checks of one entry that follow the path checks; the file carries,
\* besides the fields of NormalizedConfigFile, the number of calls of the
\* contents function that building it made
normalizeResolved(entry, absoluteSegments, normalizedRelative, seen, resolved) ==
  IF normalizedRelative \in seen
    THEN [ok |-> FALSE, error |-> "Duplicate config file definition"]
  ELSE IF ~resolved.ok
    THEN [ok |-> FALSE, error |-> resolved.error]
  ELSE [ok |-> TRUE,
        file |-> [absolutePath |-> absoluteOf(absoluteSegments),
                  parent |-> dirname(absoluteSegments),
                  relativePath |-> normalizedRelative,
                  contents |-> resolved.value,
                  gitignoreEntry |-> gitignoreEntryOf(entry, normalizedRelative),
                  mode |-> entry.mode,
                  invoked |-> resolved.invoked]]

\* the checks of one entry, given path.resolve and path.relative of its key
normalizeAt(entry, absoluteSegments, relativePath, seen) ==
  IF trim(entry.rawPath) = <<>>
    THEN [ok |-> FALSE, error |-> "is missing a valid path"]
  ELSE IF entry.contents.type = "absent"
    THEN [ok |-> FALSE, error |-> "must be an object with a contents property"]
  ELSE IF isAbsolute(entry.rawPath)
    THEN [ok |-> FALSE, error |-> "must be relative to the root directory"]
  ELSE IF escapesRoot(relativePath)
    THEN [ok |-> FALSE, error |-> "must reside within the root directory"]
  ELSE normalizeResolved(entry, absoluteSegments,
                         normalizeRelativePath(relativePath), seen,
                         resolveContents(entry.contents))

normalizeResolvedPath(entry, absoluteSegments, seen) ==
  normalizeAt(entry, absoluteSegments,
              relative(RootSegments, absoluteSegments), seen)

\* the sentinel of a normalized entry: it must occur in the contents, and
\* the normalized file carries it
withSentinel(entry, normalized) ==
  IF ~normalized.ok THEN normalized
  ELSE IF ~sentinelInContents(normalized.file.contents, entry.sentinel)
    THEN [ok |-> FALSE, error |-> "must include the configured sentinel"]
  ELSE [ok |-> TRUE,
        file |-> [absolutePath |-> normalized.file.absolutePath,
                  parent |-> normalized.file.parent,
                  relativePath |-> normalized.file.relativePath,
                  contents |-> normalized.file.contents,
                  gitignoreEntry |-> normalized.file.gitignoreEntry,
                  mode |-> normalized.file.mode,
                  invoked |-> normalized.file.invoked,
                  sentinel |-> entry.sentinel]]

\* the callback of Object.entries(files).map: one entry, given the paths seen
normalizeEntry(entry, seen) ==
  withSentinel(entry,
    normalizeResolvedPath(entry, resolve(RootSegments, entry.rawPath), seen))

\* the rest of the map once one entry is normalized
RECURSIVE normalizeFrom(_, _, _)
\* an entry that fails its checks is skipped
normalizeNextSkipping(entries, seen, done, one) ==
  IF ~one.ok THEN normalizeFrom(Tail(entries), seen, done)
  ELSE normalizeFrom(Tail(entries), seen \cup {one.file.relativePath},
                     Append(done, one.file))

\* the normalized list built backwards
normalizeNextPrepending(entries, seen, done, one) ==
  IF ~one.ok THEN [ok |-> FALSE, error |-> one.error]
  ELSE normalizeFrom(Tail(entries), seen \cup {one.file.relativePath},
                     <<one.file>> \o done)

normalizeNext(entries, seen, done, one) ==
  IF ~one.ok THEN [ok |-> FALSE, error |-> one.error]
  ELSE normalizeFrom(Tail(entries), seen \cup {one.file.relativePath},
                     Append(done, one.file))

normalizeFrom(entries, seen, done) ==
  IF entries = <<>> THEN [ok |-> TRUE, files |-> done]
  ELSE normalizeNext(entries, seen, done, normalizeEntry(Head(entries), seen))

\* normalizeFiles(files, rootDir): the normalized list, or the error thrown
normalizeFiles(files) == normalizeFrom(files, {}, <<>>)

\* ------------------------------------------------------------ file system
\* A file system state is [files, modes, dirs, denied, reads, log]: files maps the
\* absolute path of every existing file to its content, dirs is the set of
\* existing directories (each a list of segments), denied is the set of
\* paths that may not be written, reads is the set of paths read so far,
\* and log is the list of the calls of fs made so far, in their order.

\* a promise rejected with a file system error, and the disk left
thrown(error, disk) == [ok |-> FALSE, error |-> error, disk |-> disk]

\* fs.readFile of a directory rejects with EISDIR, which is not ENOENT
isDirectory(disk, filePath) == \E d \in disk.dirs : absoluteOf(d) = filePath

\* fs.writeFile of a path that may not be written rejects with EACCES
writeDenied(disk, filePath) == filePath \in disk.denied

\* fs.readFile was called on the path
noteRead(disk, filePath) ==
  [disk EXCEPT !.reads = @ \cup {filePath},
               !.log = Append(@, [op |-> "read", path |-> filePath])]

\* fs.readFile: null (ENOENT) when the file does not exist
readFileIfPresent(disk, filePath) ==
  IF filePath \in DOMAIN disk.files
  THEN [isNull |-> FALSE, value |-> disk.files[filePath]]
  ELSE [isNull |-> TRUE, value |-> <<>>]

\* every prefix of a directory's segments, itself included
ancestors(segments) == {SubSeq(segments, 1, n) : n \in 0..Len(segments)}

\* fs.mkdir(dir, {recursive: true})
mkdir(disk, segments) ==
  [disk EXCEPT !.dirs = @ \cup ancestors(segments),
               !.log = Append(@, [op |-> "mkdir", path |-> absoluteOf(segments)])]

\* A permission mode is the set of its bits; the mode option of
\* fs.writeFile is <<>> when undefined and <<mode>> when given.
NoMode == <<>>
DefaultMode == {"ur", "uw", "gr", "gw", "or", "ow"}
Umask == {"gw", "ow"}

\* the mode of a file that open(2) creates: the mode asked for (0o666 when
\* none is), less the bits of the process umask
createdMode(mode) ==
  (IF mode = NoMode THEN DefaultMode ELSE mode[1]) \ Umask

\* files created without a mode option under the umask
defaultModes(files) == [q \in DOMAIN files |-> createdMode(NoMode)]

\* fs.writeFile changing the mode of every file it writes
writeFileChmod(disk, filePath, content, mode) ==
  [disk EXCEPT
     !.files = [q \in DOMAIN disk.files \cup {filePath} |->
                  IF q = filePath THEN content ELSE disk.files[q]],
     !.modes = [q \in DOMAIN disk.files \cup {filePath} |->
                  IF q = filePath THEN createdMode(mode) ELSE disk.modes[q]],
     !.log = Append(@, [op |-> "write", path |-> filePath])]

\* fs.writeFile(filePath, content, {mode}): the file is opened with flag
\* 'w', which truncates an existing file and keeps its mode, and creates a
\* missing one with the mode
\* a write that leaves the written file as the only file
writeFileAlone(disk, filePath, content, mode) ==
  [disk EXCEPT
     !.files = [q \in {filePath} |-> content],
     !.modes = [q \in {filePath} |->
                  IF q \in DOMAIN disk.files THEN disk.modes[q]
                  ELSE createdMode(mode)],
     !.log = Append(@, [op |-> "write", path |-> filePath])]

writeFileMode(disk, filePath, content, mode) ==
  [disk EXCEPT
     !.files = [q \in DOMAIN disk.files \cup {filePath} |->
                  IF q = filePath THEN content ELSE disk.files[q]],
     !.modes = [q \in DOMAIN disk.files \cup {filePath} |->
                  IF q \in DOMAIN disk.files THEN disk.modes[q]
                  ELSE createdMode(mode)],
     !.log = Append(@, [op |-> "write", path |-> filePath])]

\* fs.writeFile(filePath, content)
writeFile(disk, filePath, content) ==
  writeFileMode(disk, filePath, content, NoMode)

\* --------------------------------------------------------- File Reconciler

\* the sentinel looked for in the desired contents, not in the file
sentinelMissingFromDesired(file, existing) ==
  /\ file.sentinel # NoSentinel
  /\ ~existing.isNull
  /\ existing.value # file.contents
  /\ ~includes(file.contents, file.sentinel)

\* an existing file that differs from the desired contents and does not
\* hold the declared sentinel is left alone
sentinelMissing(file, existing) ==
  /\ file.sentinel # NoSentinel
  /\ ~existing.isNull
  /\ existing.value # file.contents
  /\ ~includes(existing.value, file.sentinel)

\* syncFile writing only the files it creates
syncFileCreatingOnly(file, dryRun, disk, existing) ==
  IF ~existing.isNull /\ existing.value = file.contents
  THEN [action |-> "unchanged", disk |-> disk]
  ELSE [action |-> IF existing.isNull THEN "created" ELSE "updated",
        disk |-> IF ~dryRun /\ existing.isNull
                 THEN writeFileMode(mkdir(disk, file.parent),
                                    file.absolutePath, file.contents,
                                    file.mode)
                 ELSE disk]

\* syncFile creating the parent directory before it looks at dryRun
syncFileEagerMkdir(file, dryRun, disk, existing) ==
  IF ~existing.isNull /\ existing.value = file.contents
  THEN [action |-> "unchanged", disk |-> disk]
  ELSE [action |-> IF existing.isNull THEN "created" ELSE "updated",
        disk |-> IF ~dryRun
                 THEN writeFileMode(mkdir(disk, file.parent),
                                    file.absolutePath, file.contents,
                                    file.mode)
                 ELSE mkdir(disk, file.parent)]

\* syncFile after the read: the action and the disk it leaves
syncFileWith(file, dryRun, disk, existing) ==
  IF ~existing.isNull /\ existing.value = file.contents
  THEN [action |-> "unchanged", disk |-> disk]
  ELSE [action |-> IF existing.isNull THEN "created" ELSE "updated",
        disk |-> IF ~dryRun
                 THEN writeFileMode(mkdir(disk, file.parent),
                                    file.absolutePath, file.contents,
                                    file.mode)
                 ELSE disk]

\* syncFile resolved: the action and the disk it leaves
fulfilled(done) == [ok |-> TRUE, action |-> done.action, disk |-> done.disk]

\* syncFile after the read: fs.mkdir, then fs.writeFile which may reject
syncFileRead(file, dryRun, disk, existing) ==
  IF /\ ~dryRun
     /\ existing.isNull \/ existing.value # file.contents
     /\ writeDenied(disk, file.absolutePath)
  THEN thrown("EACCES", mkdir(disk, file.parent))
  ELSE fulfilled(syncFileWith(file, dryRun, disk, existing))

\* syncFile(file, {dryRun}): a read error other than ENOENT is rethrown
syncFile(file, dryRun, disk) ==
  IF isDirectory(disk, file.absolutePath)
  THEN thrown("EISDIR", noteRead(disk, file.absolutePath))
  ELSE syncFileRead(file, dryRun, noteRead(disk, file.absolutePath),
                    readFileIfPresent(disk, file.absolutePath))

\* the warning of a file left alone, and no warning
NotOverwriting == <<"Not overwriting">>
NoWarning == <<>>

\* the outcome of a managed file
managedOutcome(done) ==
  IF ~done.ok THEN done
  ELSE [ok |-> TRUE, action |-> done.action, managed |-> TRUE,
        warning |-> NoWarning, disk |-> done.disk]

\* the sentinel gate around syncFile: action, managed, warning and disk
reconcileFile(file, dryRun, disk) ==
  IF /\ ~isDirectory(disk, file.absolutePath)
     /\ sentinelMissing(file, readFileIfPresent(disk, file.absolutePath))
  THEN [ok |-> TRUE, action |-> "unchanged", managed |-> FALSE,
        warning |-> NotOverwriting,
        disk |-> noteRead(disk, file.absolutePath)]
  ELSE managedOutcome(syncFile(file, dryRun, disk))

\* one element of results: path, absolutePath, action, skipped, gitignored
fileResult(file, action) ==
  [path |-> file.relativePath,
   absolutePath |-> file.absolutePath,
   action |-> action,
   skipped |-> action = "unchanged",
   gitignored |-> ~file.gitignoreEntry.isNull
                  /\ file.gitignoreEntry.value # <<>>]

\* the reported record: a file left alone is neither skipped nor gitignored
reportOf(record, outcome) ==
  [path |-> record.path,
   absolutePath |-> record.absolutePath,
   action |-> record.action,
   skipped |-> record.skipped /\ outcome.managed,
   gitignored |-> record.gitignored /\ outcome.managed,
   managed |-> outcome.managed,
   warning |-> outcome.warning]

\* normalizedFiles.map(file => file.gitignoreEntry).filter(Boolean), one
\* file at a time
entriesWith(entries, file) ==
  IF ~file.gitignoreEntry.isNull /\ file.gitignoreEntry.value # <<>>
  THEN Append(entries, file.gitignoreEntry.value)
  ELSE entries

\* every declared entry tracked, a file left alone included
trackedEntriesDeclared(entries, file, outcome) == entriesWith(entries, file)

\* a file left alone is not tracked in the ignore list
trackedEntries(entries, file, outcome) ==
  IF outcome.managed THEN entriesWith(entries, file) ELSE entries

\* the for loop of syncConfigs: results, tracked entries and disk
RECURSIVE syncFilesFrom(_, _, _, _, _)
\* the loop going on to the next file when syncFile rejects
syncFilesNextContinuing(files, dryRun, results, entries, outcome) ==
  IF ~outcome.ok
  THEN syncFilesFrom(Tail(files), dryRun, outcome.disk, results, entries)
  ELSE syncFilesFrom(Tail(files), dryRun, outcome.disk,
                     Append(results,
                            reportOf(fileResult(Head(files), outcome.action),
                                     outcome)),
                     trackedEntries(entries, Head(files), outcome))

syncFilesNext(files, dryRun, results, entries, outcome) ==
  IF ~outcome.ok THEN outcome
  ELSE syncFilesFrom(Tail(files), dryRun, outcome.disk,
                     Append(results,
                            reportOf(fileResult(Head(files), outcome.action),
                                     outcome)),
                     trackedEntries(entries, Head(files), outcome))

syncFilesFrom(files, dryRun, disk, results, entries) ==
  IF files = <<>>
  THEN [ok |-> TRUE, files |-> results, entries |-> entries, disk |-> disk]
  ELSE syncFilesNext(files, dryRun, results, entries,
                     reconcileFile(Head(files), dryRun, disk))

\* ----------------------------------------------------- Ignore-Block Manager

RECURSIVE normalizeAll(_)
normalizeAll(values) ==
  IF values = <<>> THEN <<>>
  ELSE <<normalizeGitignoreEntry(Head(values))>> \o normalizeAll(Tail(values))

\* the entries not in other, last one first
RECURSIVE withoutBackwards(_, _)
withoutBackwards(entries, other) ==
  IF entries = <<>> THEN <<>>
  ELSE IF Head(entries) \in Range(other)
    THEN withoutBackwards(Tail(entries), other)
  ELSE withoutBackwards(Tail(entries), other) \o <<Head(entries)>>

\* entries.filter(entry => !other.includes(entry))
RECURSIVE without(_, _)
without(entries, other) ==
  IF entries = <<>> THEN <<>>
  ELSE IF Head(entries) \in Range(other) THEN without(Tail(entries), other)
  ELSE <<Head(entries)>> \o without(Tail(entries), other)

\* syncGitignore writing a block of the added entries only
syncGitignoreWritingAdded(gitignorePath, uniqueEntries, dryRun, disk, existingBlock, linesWithoutBlock) ==
  IF arraysEqual(existingBlock, uniqueEntries)
  THEN [result |-> [updated |-> FALSE, added |-> <<>>, removed |-> <<>>,
                    skipped |-> FALSE],
        disk |-> disk]
  ELSE [result |-> [updated |-> TRUE,
                    added |-> without(uniqueEntries, existingBlock),
                    removed |-> without(existingBlock, uniqueEntries),
                    skipped |-> FALSE],
        disk |-> IF ~dryRun
                 THEN writeFile(mkdir(disk, RootSegments), gitignorePath,
                        buildGitignoreContent(linesWithoutBlock,
                          without(uniqueEntries, existingBlock)))
                 ELSE disk]

\* syncGitignore once the block is extracted and normalized
syncGitignoreWith(gitignorePath, uniqueEntries, dryRun, disk, existingBlock, linesWithoutBlock) ==
  IF arraysEqual(existingBlock, uniqueEntries)
  THEN [result |-> [updated |-> FALSE, added |-> <<>>, removed |-> <<>>,
                    skipped |-> FALSE],
        disk |-> disk]
  ELSE [result |-> [updated |-> TRUE,
                    added |-> without(uniqueEntries, existingBlock),
                    removed |-> without(existingBlock, uniqueEntries),
                    skipped |-> FALSE],
        disk |-> IF ~dryRun
                 THEN writeFile(mkdir(disk, RootSegments), gitignorePath,
                        buildGitignoreContent(linesWithoutBlock, uniqueEntries))
                 ELSE disk]

\* syncGitignore resolved: the result and the disk it leaves
ignoreDone(done) == [ok |-> TRUE, result |-> done.result, disk |-> done.disk]

\* syncGitignore after the read: fs.mkdir, then fs.writeFile which may reject
syncGitignoreExtracted(gitignorePath, uniqueEntries, dryRun, disk, extracted) ==
  IF /\ ~dryRun
     /\ ~arraysEqual(filterBoolean(normalizeAll(extracted.managedEntries)),
                     uniqueEntries)
     /\ writeDenied(disk, gitignorePath)
  THEN thrown("EACCES", mkdir(disk, RootSegments))
  ELSE ignoreDone(
         syncGitignoreWith(gitignorePath, uniqueEntries, dryRun, disk,
                           filterBoolean(normalizeAll(extracted.managedEntries)),
                           extracted.linesWithoutBlock))

\* current ?? ''
orEmpty(current) == IF current.isNull THEN <<>> ELSE current.value

\* syncGitignore that rewrites the block also when no entry is tracked
syncGitignoreUniquePruning(gitignorePath, uniqueEntries, dryRun, disk) ==
  syncGitignoreExtracted(gitignorePath, uniqueEntries, dryRun,
    noteRead(disk, gitignorePath),
    extractManagedBlock(orEmpty(readFileIfPresent(disk, gitignorePath))))

\* syncGitignore once the entries are normalized
syncGitignoreUnique(gitignorePath, uniqueEntries, dryRun, disk) ==
  IF Len(uniqueEntries) = 0
  THEN [ok |-> TRUE,
        result |-> [updated |-> FALSE, added |-> <<>>, removed |-> <<>>,
                    skipped |-> TRUE],
        disk |-> disk]
  ELSE IF isDirectory(disk, gitignorePath)
  THEN thrown("EISDIR", noteRead(disk, gitignorePath))
  ELSE syncGitignoreExtracted(gitignorePath, uniqueEntries, dryRun,
         noteRead(disk, gitignorePath),
         extractManagedBlock(orEmpty(readFileIfPresent(disk, gitignorePath))))

\* syncGitignore({gitignorePath, entries, dryRun}): the result and the disk
syncGitignore(gitignorePath, entries, dryRun, disk) ==
  syncGitignoreUnique(gitignorePath,
                      filterBoolean(uniqueNormalized(normalizeAll(entries))),
                      dryRun, disk)

\* ------------------------------------------------------------- syncConfigs

\* what syncConfigs returns, and the disk it leaves
syncResult(synced, ignore) ==
  IF ~ignore.ok THEN ignore
  ELSE [ok |-> TRUE,
        files |-> synced.files,
        gitignore |-> ignore.result,
        entries |-> synced.entries,
        disk |-> ignore.disk]

\* syncConfigs after the for loop
syncConfigsSynced(dryRun, synced) ==
  IF ~synced.ok THEN synced
  ELSE syncResult(synced,
                  syncGitignore(resolveGitignorePath, synced.entries, dryRun,
                                synced.disk))

\* the calls of the contents functions that normalizeFiles made, per file
invocations(files) == [i \in 1..Len(files) |-> files[i].invoked]

\* syncConfigs after normalizeFiles; the outcome carries the calls of the
\* contents functions made on the way
syncConfigsNormalized(normalized, dryRun, disk) ==
  IF ~normalized.ok
  THEN [ok |-> FALSE, error |-> normalized.error, disk |-> disk]
  ELSE [invoked |-> invocations(normalized.files)]
       @@ syncConfigsSynced(dryRun,
            syncFilesFrom(normalized.files, dryRun, disk, <<>>, <<>>))

\* syncConfigs(files, {dryRun}) from a disk: rejected with the error of
\* normalizeFiles, or resolved with the result, and the disk it leaves
syncConfigs(files, dryRun, disk) ==
  syncConfigsNormalized(normalizeFiles(files), dryRun, disk)

\* ------------------------------------------------------------ the caller
\* The inputs drawn: a few declarations of three targets under the root
\* ('a', 'd/b' and the ignore file's own path), and a few ignore files.

MaxFiles == 2

TargetA == <<"a">>
TargetB == <<"d", SLASH, "b">>

Plain == <<"x">>
Other == <<"y">>
Sentinel == <<"S">>
Marked == <<"S", "x">>
MarkedNew == <<"S", "y">>
Unrelated == <<"k", NL>>

Text(value) == [type |-> "string", value |-> value]

Declare(rawPath, value, gitignore, sentinel) ==
  [rawPath |-> rawPath, contents |-> Text(value),
   gitignore |-> gitignore, sentinel |-> sentinel, mode |-> NoMode]

Declarations ==
  { Declare(TargetA, Plain, TRUE, NoSentinel),
    Declare(TargetA, Plain, FALSE, NoSentinel),
    Declare(TargetA, Marked, TRUE, Sentinel),
    Declare(TargetA, MarkedNew, TRUE, Sentinel),
    Declare(TargetA, Plain, TRUE, Sentinel),
    Declare(TargetB, Other, TRUE, NoSentinel),
    Declare(GitignoreName, Unrelated, FALSE, NoSentinel) }

\* Object.entries of a map: its keys are distinct, in insertion order
DeclaredMaps ==
  {m \in UNION {[1..n -> Declarations] : n \in 0..MaxFiles} :
     \A i, j \in 1..Len(m) : i # j => m[i].rawPath # m[j].rawPath}

InitialIgnores ==
  { <<"k", NL>>,
    <<MK, NL, "a", NL>>,
    <<"k", NL, NL, MK, NL, "a", NL, "d", SLASH, "b", NL>>,
    <<MK, NL, "a", NL, MK, NL, "d", SLASH, "b", NL>> }

PathA == absoluteOf(Append(RootSegments, TargetA))
PathB == absoluteOf(RootSegments \o <<<<"d">>, <<"b">>>>)

\* optional content: <<>> for an absent file, <<content>> for a file
diskFiles(a, b, g) ==
  [p \in (IF a = <<>> THEN {} ELSE {PathA})
         \cup (IF b = <<>> THEN {} ELSE {PathB})
         \cup (IF g = <<>> THEN {} ELSE {resolveGitignorePath}) |->
     IF p = PathA THEN a[1] ELSE IF p = PathB THEN b[1] ELSE g[1]]

InitialFiles ==
  {diskFiles(a, b, g) :
     a \in {<<>>, <<Plain>>, <<Marked>>},
     b \in {<<>>, <<Other>>},
     g \in {<<>>} \cup {<<c>> : c \in InitialIgnores}}

\* the directories of the files that exist, with the root directory
dirsOf(files) ==
  ancestors(RootSegments)
  \cup (IF PathB \in DOMAIN files
        THEN {Append(RootSegments, <<"d">>)} ELSE {})

NoCall == [status |-> "none"]


\* files without its i-th declaration
dropEntry(files, i) ==
  SubSeq(files, 1, i - 1) \o SubSeq(files, i + 1, Len(files))

VARIABLES
  fs,    \* existing files: absolute path -> content
  dirs,  \* existing directories
  modes,  \* the permission mode of every existing file
  denied,  \* paths the process may not write
  last   \* the caller's record of its most recent syncConfigs call

vars == <<fs, modes, dirs, denied, last>>

Init ==
  /\ fs \in InitialFiles
  /\ dirs = dirsOf(fs)
  /\ modes = defaultModes(fs)
  /\ denied = {}
  /\ last = NoCall

\* a contents after the call made of it: a function has one more call behind it
afterCalls(contents, n) ==
  IF contents.type = "function"
  THEN [contents EXCEPT !.calls = (@ + n) % Len(contents.returns)]
  ELSE contents

\* the same map object after a call that resolved
calledAgain(files, invoked) ==
  [i \in 1..Len(files) |->
     [files[i] EXCEPT !.contents = afterCalls(@, invoked[i])]]

\* the disk a call starts from: nothing read yet
startOf(held, directories, readOnly) ==
  [files |-> held.files, modes |-> held.modes, dirs |-> directories,
   denied |-> readOnly, reads |-> {}, log |-> <<>>]

\* the caller's record of a settled call
recordOf(files, dryRun, relation, dropped, before, done) ==
  IF done.ok
  THEN [status |-> "resolved", input |-> files, dryRun |-> dryRun,
        relation |-> relation, dropped |-> dropped, before |-> before,
        files |-> done.files, gitignore |-> done.gitignore,
        entries |-> done.entries, reads |-> done.disk.reads,
        log |-> done.disk.log,
        invoked |-> done.invoked]
  ELSE [status |-> "rejected", input |-> files, dryRun |-> dryRun,
        relation |-> relation, dropped |-> dropped, before |-> before,
        error |-> done.error, reads |-> done.disk.reads,
        log |-> done.disk.log]

Settle(files, dryRun, relation, dropped, before, done) ==
  /\ fs' = done.disk.files
  /\ modes' = done.disk.modes
  /\ dirs' = done.disk.dirs
  /\ denied' = denied
  /\ last' = recordOf(files, dryRun, relation, dropped, before, done)

\* await syncConfigs(files, {rootDir, dryRun}): the call settles, the disk
\* is what the call left, and the caller records input, outcome and the
\* disk the call started from.  relation tells how the input relates to
\* the input of the call before it.
Call(files, dryRun, relation, dropped) ==
  Settle(files, dryRun, relation, dropped,
         [files |-> fs, modes |-> modes, dirs |-> dirs],
         syncConfigs(files, dryRun,
                     startOf([files |-> fs, modes |-> modes], dirs, denied)))

\* a call with a newly declared map
SyncConfigs(files, dryRun) ==
  /\ last = NoCall
  /\ Call(files, dryRun, "first", <<>>)

\* the same call again, right after it resolved
Rerun ==
  /\ last.status = "resolved"
  /\ Call(calledAgain(last.input, last.invoked), last.dryRun, "same", <<>>)

\* a following live call whose map no longer declares one of the targets
Redeclare(i) ==
  /\ last.status = "resolved"
  /\ ~last.dryRun
  /\ last.relation = "first"
  /\ i \in 1..Len(last.input)
  /\ Call(dropEntry(last.input, i), FALSE, "dropped", last.entries)

\* the caller lets go of the result
Discard ==
  /\ last # NoCall
  /\ last' = NoCall
  /\ UNCHANGED <<fs, modes, dirs, denied>>

Next ==
  \/ \E files \in DeclaredMaps, dryRun \in BOOLEAN : SyncConfigs(files, dryRun)
  \/ Rerun
  \/ \E i \in 1..MaxFiles : Redeclare(i)
  \/ Discard

Spec == Init /\ [][Next]_vars


\* -------------------------------------------- calls on any ignore file
\* A second specification: the same calls, from a root directory that holds
\* nothing but an ignore file drawn from every text of at most MaxLines lines.

MaxLines == 3

\* lines of an ignore file: blank, whitespace, the marker, a comment, the
\* entries of the two targets, an unrelated path, an entry with a space
LineAlphabet ==
  { <<>>, <<SP>>, MANAGED_COMMENT, <<HASH, "c">>, TargetA, TargetB, <<"k">>,
    <<SP>> \o TargetA }

LineLists == UNION {[1..n -> LineAlphabet] : n \in 0..MaxLines}

\* the text of lines joined by eol, with or without a final eol
textOf(lines, eol, final) ==
  join(lines, eol) \o (IF final /\ lines # <<>> THEN eol ELSE <<>>)

IgnoreContents ==
  {textOf(lines, eol, final) :
     lines \in LineLists, eol \in {<<NL>>, <<CR, NL>>}, final \in BOOLEAN}

\* maps of the two targets, tracked or not
TrackedMaps ==
  { <<>>,
    <<Declare(TargetA, Plain, TRUE, NoSentinel)>>,
    <<Declare(TargetA, Plain, FALSE, NoSentinel)>>,
    <<Declare(TargetA, Plain, TRUE, NoSentinel),
      Declare(TargetB, Other, TRUE, NoSentinel)>>,
    <<Declare(TargetB, Other, TRUE, NoSentinel),
      Declare(TargetA, Plain, TRUE, NoSentinel)>> }

InitIgnore ==
  /\ fs \in {diskFiles(<<>>, <<>>, g) :
              g \in {<<>>} \cup {<<c>> : c \in IgnoreContents}}
  /\ dirs = ancestors(RootSegments)
  /\ modes = defaultModes(fs)
  /\ denied = {}
  /\ last = NoCall

NextIgnore ==
  \/ \E files \in TrackedMaps, dryRun \in BOOLEAN : SyncConfigs(files, dryRun)
  \/ Rerun

SpecIgnore == InitIgnore /\ [][NextIgnore]_vars

\* ------------------------------------------------- the caller, any input
\* Maps whose keys and contents the validation has to judge: keys that are
\* blank, absolute, outside the root, the root itself or twice the same
\* target, and contents that are functions, no string or missing.

Returns(value) == [kind |-> "string", value |-> value]

\* a function that returns x, then y, then x again
Alternating ==
  [type |-> "function", returns |-> <<Returns(Plain), Returns(Other)>>,
   calls |-> 0]

ReturnsPromise ==
  [type |-> "function", returns |-> <<[kind |-> "promise", value |-> <<>>]>>,
   calls |-> 0]

ReturnsNumber ==
  [type |-> "function", returns |-> <<[kind |-> "other", value |-> <<>>]>>,
   calls |-> 0]

Entry(rawPath, contents, gitignore) ==
  [rawPath |-> rawPath, contents |-> contents, gitignore |-> gitignore,
   sentinel |-> NoSentinel, mode |-> NoMode]

DotSlashA == <<DOT, SLASH, "a">>
AbsoluteA == <<SLASH, "a">>
Above == <<DOT, DOT, SLASH, "x">>
AboveFromBelow == <<"d", SLASH, DOT, DOT, SLASH, DOT, DOT, SLASH, "x">>
RootItself == <<DOT>>
RootFromBelow == <<"d", SLASH, DOT, DOT>>
Blank == <<SP>>
DotDotName == <<DOT, DOT, "c">>

InputDeclarations ==
  { Entry(TargetA, Text(Plain), TRUE),
    Entry(TargetA, Alternating, FALSE),
    Entry(TargetB, Text(Other), TRUE),
    Entry(TargetB, Alternating, TRUE),
    Entry(DotSlashA, Text(Other), TRUE),
    Entry(AbsoluteA, Text(Plain), TRUE),
    Entry(Above, Text(Plain), TRUE),
    Entry(AboveFromBelow, Text(Plain), TRUE),
    Entry(RootItself, Text(Plain), TRUE),
    Entry(RootFromBelow, Text(Plain), TRUE),
    Entry(Blank, Text(Plain), TRUE),
    Entry(DotDotName, Text(Plain), TRUE),
    Entry(TargetA, [type |-> "other"], TRUE),
    Entry(TargetA, [type |-> "absent"], TRUE),
    Entry(TargetB, ReturnsPromise, TRUE),
    Entry(TargetB, ReturnsNumber, TRUE) }

InputMaps ==
  {m \in UNION {[1..n -> InputDeclarations] : n \in 0..MaxFiles} :
     \A i, j \in 1..Len(m) : i # j => m[i].rawPath # m[j].rawPath}

InitInput ==
  /\ fs \in {diskFiles(a, <<>>, g) :
              a \in {<<>>, <<Plain>>}, g \in {<<>>, <<Unrelated>>}}
  /\ dirs = ancestors(RootSegments)
  /\ modes = defaultModes(fs)
  /\ denied = {}
  /\ last = NoCall

NextInput ==
  \/ \E files \in InputMaps, dryRun \in BOOLEAN : SyncConfigs(files, dryRun)
  \/ Rerun
  \/ Discard

SpecInput == InitInput /\ [][NextInput]_vars

\* ------------------------------------------ the caller, a failing disk
\* Disks on which reading or writing a target fails: a directory sits at
\* the target's path (EISDIR), or the path may not be written (EACCES).

FaultDeclarations ==
  { Declare(TargetA, Plain, TRUE, NoSentinel),
    Declare(TargetA, Other, TRUE, NoSentinel),
    Declare(TargetB, Other, TRUE, NoSentinel) }

FaultMaps ==
  {m \in UNION {[1..n -> FaultDeclarations] : n \in 1..MaxFiles} :
     \A i, j \in 1..Len(m) : i # j => m[i].rawPath # m[j].rawPath}

DirA == Append(RootSegments, TargetA)
DirB == RootSegments \o <<<<"d">>, <<"b">>>>

\* the directories that may sit at the paths of the targets no file is at
directoriesAt(files) ==
  SUBSET ((IF PathA \in DOMAIN files THEN {} ELSE {DirA})
          \cup (IF PathB \in DOMAIN files THEN {} ELSE {DirB}))

InitFaults ==
  /\ fs \in {diskFiles(a, b, g) :
              a \in {<<>>, <<Plain>>}, b \in {<<>>, <<Other>>},
              g \in {<<>>, <<Unrelated>>}}
  /\ \E extra \in directoriesAt(fs) :
       dirs = dirsOf(fs) \cup extra
              \cup (IF DirB \in extra
                    THEN {Append(RootSegments, <<"d">>)} ELSE {})
  /\ modes = defaultModes(fs)
  /\ denied \in SUBSET {PathA, PathB, resolveGitignorePath}
  /\ last = NoCall

NextFaults ==
  \/ \E files \in FaultMaps, dryRun \in BOOLEAN : SyncConfigs(files, dryRun)
  \/ Rerun
  \/ Discard

SpecFaults == InitFaults /\ [][NextFaults]_vars

\* ------------------------------------------- the caller, declared modes
\* Targets declared with a mode, on disks whose files have various modes.

Mode600 == {"ur", "uw"}
Mode644 == {"ur", "uw", "gr", "or"}
Mode664 == {"ur", "uw", "gr", "gw", "or"}

DeclareMode(rawPath, value, mode) ==
  [rawPath |-> rawPath, contents |-> Text(value), gitignore |-> TRUE,
   sentinel |-> NoSentinel, mode |-> mode]

ModeDeclarations ==
  { DeclareMode(TargetA, value, mode) :
      value \in {Plain, Other}, mode \in {NoMode, <<Mode600>>, <<Mode664>>} }
  \cup { DeclareMode(TargetB, Other, <<Mode600>>) }

ModeMaps ==
  {m \in UNION {[1..n -> ModeDeclarations] : n \in 1..MaxFiles} :
     \A i, j \in 1..Len(m) : i # j => m[i].rawPath # m[j].rawPath}

InitMode ==
  /\ fs \in {diskFiles(a, b, <<>>) :
              a \in {<<>>, <<Plain>>}, b \in {<<>>, <<Plain>>}}
  /\ modes \in [DOMAIN fs -> {Mode600, Mode644, DefaultMode}]
  /\ dirs = dirsOf(fs)
  /\ denied = {}
  /\ last = NoCall

NextMode ==
  \/ \E files \in ModeMaps, dryRun \in BOOLEAN : SyncConfigs(files, dryRun)
  \/ Rerun
  \/ Discard

SpecMode == InitMode /\ [][NextMode]_vars

\* ------------------------------------------------------------ the CLI
\* runCli of cli.ts: the arguments are a list of words, and the project is
\* what loadConfig finds: the manifest (package.json), the payload its
\* module yields and the payload of a JSON file named by --config.  A
\* payload is {type: "throws"} (no file, no export, a factory that
\* throws), {type: "invalid"} or {type: "files", files}.  The values given
\* to --root and --gitignore name the root and the ignore file that the
\* model has.

\* the value after a flag is missing: no next word, or an empty one
noValue(args) == Len(args) < 2 \/ args[2] = ""

RECURSIVE parseFlagsFrom(_, _)
parseFlagsFrom(args, flags) ==
  IF args = <<>> THEN [ok |-> TRUE, flags |-> flags]
  ELSE IF Head(args) \in {"--dry-run", "--dryRun"}
  THEN parseFlagsFrom(Tail(args), [flags EXCEPT !.dryRun = TRUE])
  ELSE IF Head(args) = "--json"
  THEN parseFlagsFrom(Tail(args), [flags EXCEPT !.json = TRUE])
  ELSE IF Head(args) \in {"--root", "--root-dir"}
  THEN IF noValue(args)
       THEN [ok |-> FALSE, error |-> "Expected value after --root"]
       ELSE parseFlagsFrom(Tail(Tail(args)), [flags EXCEPT !.rootDir = args[2]])
  ELSE IF Head(args) \in {"--gitignore", "--gitignore-path"}
  THEN IF noValue(args)
       THEN [ok |-> FALSE, error |-> "Expected value after --gitignore"]
       ELSE parseFlagsFrom(Tail(Tail(args)),
                           [flags EXCEPT !.gitignorePath = args[2]])
  ELSE IF Head(args) = "--config"
  THEN IF noValue(args)
       THEN [ok |-> FALSE, error |-> "Expected value after --config"]
       ELSE parseFlagsFrom(Tail(Tail(args)),
                           [flags EXCEPT !.configPath = args[2]])
  ELSE IF Head(args) = "--" THEN [ok |-> TRUE, flags |-> flags]
  ELSE IF Head(args) \in {"--help", "-h"}
  THEN parseFlagsFrom(Tail(args), [flags EXCEPT !.helpRequested = TRUE])
  ELSE [ok |-> FALSE, error |-> "Unknown argument"]

\* a flag that was not given a value is "", which is as falsy as undefined
parseFlags(args) ==
  parseFlagsFrom(args, [dryRun |-> FALSE, json |-> FALSE, rootDir |-> "",
                        gitignorePath |-> "", configPath |-> "",
                        helpRequested |-> FALSE])

\* every entry is an object with a contents property
toConfigMap(files) ==
  IF \E i \in 1..Len(files) : files[i].contents.type = "absent"
  THEN [ok |-> FALSE, error |-> "Invalid entry"]
  ELSE [ok |-> TRUE, files |-> files]

parseConfigPayload(payload) ==
  IF payload.type = "files" THEN toConfigMap(payload.files)
  ELSE [ok |-> FALSE, error |-> "Invalid cpconfig definition"]

\* a payload read or imported, then parsed
loadPayload(payload, error) ==
  IF payload.type = "throws" THEN [ok |-> FALSE, error |-> error]
  ELSE parseConfigPayload(payload)

loadConfig(project, flags) ==
  IF flags.configPath # ""
  THEN loadPayload(project.json, "ENOENT")
  ELSE IF project.manifest = "none"
  THEN [ok |-> FALSE, error |-> "Unable to locate package.json"]
  ELSE IF project.manifest = "legacy"
  THEN [ok |-> FALSE, error |-> "Move the value to config.cpconfig"]
  ELSE IF project.manifest = "noConfig"
  THEN [ok |-> FALSE, error |-> "Expected config.cpconfig to reference a module"]
  ELSE IF project.manifest = "notString"
  THEN [ok |-> FALSE, error |-> "Expected config.cpconfig to be a non-empty string"]
  ELSE loadPayload(project.module, "Failed to load cpconfig module")

\* what runCli leaves: the promise's state, the exit code, both streams
exited(code, stdout, stderr, synced, disk) ==
  [settled |-> "resolved", code |-> code, stdout |-> stdout,
   stderr |-> stderr, synced |-> synced, disk |-> disk]

\* the catch block: one line on stderr and exit code 1
caught(error, synced, disk) ==
  exited(1, <<>>, << <<"cpconfig: ", error, "\n">> >>, synced, disk)

\* the warning lines of a result, one for each file that has a warning
RECURSIVE warningLines(_)
warningLines(files) ==
  IF files = <<>> THEN <<>>
  ELSE (IF files[1].warning # NoWarning
        THEN << <<"cpconfig: warning: ", files[1].warning, "\n">> >>
        ELSE <<>>)
       \o warningLines(Tail(files))

runCliSynced(flags, done) ==
  IF ~done.ok THEN caught(done.error, TRUE, done.disk)
  ELSE exited(0, IF flags.json THEN <<"json">> ELSE <<"text">>,
              warningLines(done.files), TRUE, done.disk)

runCliLoaded(flags, loaded, disk) ==
  IF ~loaded.ok THEN caught(loaded.error, FALSE, disk)
  ELSE runCliSynced(flags, syncConfigs(loaded.files, flags.dryRun, disk))

\* parseFlags is called before the try block: what it throws rejects the
\* promise that runCli returned
runCliParsed(args, project, disk, parsed) ==
  IF ~parsed.ok
  THEN [settled |-> "rejected", error |-> parsed.error, stdout |-> <<>>,
        stderr |-> <<>>, synced |-> FALSE, disk |-> disk]
  ELSE IF parsed.flags.helpRequested
  THEN exited(0, <<"help">>, <<>>, FALSE, disk)
  ELSE runCliLoaded(parsed.flags, loadConfig(project, parsed.flags), disk)

runCli(args, project, disk) == runCliParsed(args, project, disk, parseFlags(args))

CliArgs ==
  { <<>>, <<"--dry-run">>, <<"--json">>, <<"--dry-run", "--json">>,
    <<"--root", ".">>, <<"--gitignore", ".gitignore">>,
    <<"--config", "c.json">>, <<"--help">>, <<"--", "extra">>,
    <<"--root">>, <<"--config", "">>, <<"--verbose">>,
    <<"--help", "--verbose">> }

CliMaps ==
  { <<>>,
    <<Declare(TargetA, Plain, TRUE, NoSentinel)>>,
    <<Declare(TargetA, MarkedNew, TRUE, Sentinel)>>,
    <<Declare(TargetB, Other, TRUE, NoSentinel),
      Declare(TargetA, Marked, FALSE, Sentinel)>>,
    <<Entry(Above, Text(Plain), TRUE)>>,
    <<Entry(TargetA, [type |-> "absent"], TRUE)>> }

Payloads ==
  {[type |-> "throws"], [type |-> "invalid"]}
  \cup {[type |-> "files", files |-> files] : files \in CliMaps}

Projects ==
  {[manifest |-> m, module |-> [type |-> "throws"], json |-> [type |-> "throws"]] :
     m \in {"none", "legacy", "noConfig", "notString"}}
  \cup {[manifest |-> "module", module |-> p, json |-> [type |-> "throws"]] :
          p \in Payloads}
  \cup {[manifest |-> "none", module |-> [type |-> "throws"], json |-> p] :
          p \in Payloads}

InitCli ==
  /\ fs \in {diskFiles(a, <<>>, g) :
              a \in {<<>>, <<Plain>>, <<Marked>>}, g \in {<<>>, <<Unrelated>>}}
  /\ dirs = ancestors(RootSegments)
  /\ modes = defaultModes(fs)
  /\ denied \in {{}, {PathA}}
  /\ last = NoCall

\* const code = await runCli(args, {cwd, stdout, stderr}): the run ends,
\* the disk is what it left, and the shell has its outcome
RunCliEnded(args, project, out) ==
  /\ fs' = out.disk.files
  /\ modes' = out.disk.modes
  /\ dirs' = out.disk.dirs
  /\ denied' = denied
  /\ last' = [status |-> "ran", args |-> args, project |-> project,
              before |-> [files |-> fs, modes |-> modes, dirs |-> dirs],
              out |-> [o \in DOMAIN out \ {"disk"} |-> out[o]]]

RunCli(args, project) ==
  /\ last = NoCall
  /\ RunCliEnded(args, project,
                 runCli(args, project,
                        startOf([files |-> fs, modes |-> modes], dirs, denied)))

NextCli ==
  \/ \E args \in CliArgs, project \in Projects : RunCli(args, project)
  \/ Discard

SpecCli == InitCli /\ [][NextCli]_vars

\* ------------------------------------------ two invocations at once
\* Two live syncConfigs calls on the same root, each taking one awaited
\* fs operation at a time: readFile, mkdir, and the two operations that
\* fs.writeFile is made of, the open with flag 'w' that truncates or
\* creates the file, and the write of the whole content at offset 0 of
\* what the file then holds.  An invocation is [files, i, pc, entries,
\* next]: the normalized targets, the index of the file at hand (one past
\* the last for the ignore file), the operation it awaits next, the
\* tracked entries so far, and the content built for the ignore file.

RaceMaps ==
  { <<Declare(TargetA, Marked, TRUE, NoSentinel)>>,
    <<Declare(TargetA, Other, TRUE, NoSentinel)>>,
    <<Declare(TargetB, Other, TRUE, NoSentinel)>>,
    <<Declare(TargetA, Plain, TRUE, NoSentinel),
      Declare(TargetB, Other, TRUE, NoSentinel)>> }

begun(normalized) ==
  [files |-> normalized.files, i |-> 1, pc |-> "read", entries |-> <<>>,
   next |-> <<>>]

inIgnorePhase(proc) == proc.i > Len(proc.files)

pathNow(proc) ==
  IF inIgnorePhase(proc) THEN resolveGitignorePath
  ELSE proc.files[proc.i].absolutePath

contentNow(proc) ==
  IF inIgnorePhase(proc) THEN proc.next ELSE proc.files[proc.i].contents

parentNow(proc) ==
  IF inIgnorePhase(proc) THEN RootSegments ELSE proc.files[proc.i].parent

\* the entries that syncGitignore works with
uniqueEntriesOf(proc) ==
  filterBoolean(uniqueNormalized(normalizeAll(proc.entries)))

\* syncGitignore returns at once when no entry is tracked
entered(proc) ==
  IF inIgnorePhase(proc) /\ Len(uniqueEntriesOf(proc)) = 0
  THEN [proc EXCEPT !.pc = "done"] ELSE proc

\* the file at hand is settled: on to the next one, to the ignore file
\* after the last, and to the end after the ignore file
proceed(proc) ==
  IF inIgnorePhase(proc) THEN [proc EXCEPT !.pc = "done"]
  ELSE entered([proc EXCEPT !.i = @ + 1, !.pc = "read",
                            !.entries = entriesWith(@, proc.files[proc.i])])

\* after the read of a target: unchanged, or a write is due
afterReadTarget(proc, existing) ==
  IF ~existing.isNull /\ existing.value = contentNow(proc)
  THEN proceed(proc) ELSE [proc EXCEPT !.pc = "mkdir"]

\* after the read of the ignore file: nothing to do, or a rewrite is due
afterReadIgnore(proc, extracted) ==
  IF arraysEqual(filterBoolean(normalizeAll(extracted.managedEntries)),
                 uniqueEntriesOf(proc))
  THEN proceed(proc)
  ELSE [proc EXCEPT !.pc = "mkdir",
                    !.next = buildGitignoreContent(extracted.linesWithoutBlock,
                                                   uniqueEntriesOf(proc))]

afterRead(proc, current) ==
  IF inIgnorePhase(proc)
  THEN afterReadIgnore(proc, extractManagedBlock(orEmpty(current)))
  ELSE afterReadTarget(proc, current)

\* a write of data at offset 0 of a file that holds current
writtenOver(current, data) ==
  data \o SubSeq(current, Len(data) + 1, Len(current))

\* the disk that the invocations share
diskNow == startOf([files |-> fs, modes |-> modes], dirs, denied)

\* the disk changes hands, and invocation k is where proc says; wrote is
\* the record of the last write to each path that has completed
Shared(disk, k, proc, wrote) ==
  /\ fs' = disk.files
  /\ modes' = disk.modes
  /\ dirs' = disk.dirs
  /\ denied' = denied
  /\ last' = [last EXCEPT !.procs[k] = proc, !.wrote = wrote]

\* Promise.all([syncConfigs(one, {rootDir}), syncConfigs(other, {rootDir})])
\* with two valid maps
StartBoth(one, other) ==
  /\ last = NoCall
  /\ last' = [status |-> "racing",
              procs |-> <<entered(begun(normalizeFiles(one))),
                          entered(begun(normalizeFiles(other)))>>,
              before |-> [files |-> fs, modes |-> modes, dirs |-> dirs],
              wrote |-> <<>>]
  /\ UNCHANGED <<fs, modes, dirs, denied>>

racing(k, pc) == last.status = "racing" /\ last.procs[k].pc = pc

\* await fs.readFile of the file at hand
ReadStep(k) ==
  /\ racing(k, "read")
  /\ Shared(diskNow, k,
            afterRead(last.procs[k],
                      readFileIfPresent(diskNow, pathNow(last.procs[k]))),
            last.wrote)

\* await fs.mkdir(path.dirname(...), {recursive: true})
MkdirStep(k) ==
  /\ racing(k, "mkdir")
  /\ Shared(mkdir(diskNow, parentNow(last.procs[k])), k,
            [last.procs[k] EXCEPT !.pc = "open"], last.wrote)

\* fs.writeFile, first half: the file is opened, empty
OpenStep(k) ==
  /\ racing(k, "open")
  /\ Shared(writeFile(diskNow, pathNow(last.procs[k]), <<>>), k,
            [last.procs[k] EXCEPT !.pc = "write"], last.wrote)

\* fs.writeFile, second half: the content is written and the promise
\* resolves
WriteStep(k) ==
  /\ racing(k, "write")
  /\ Shared(writeFile(diskNow, pathNow(last.procs[k]),
                      writtenOver(fs[pathNow(last.procs[k])],
                                  contentNow(last.procs[k]))),
            k, proceed(last.procs[k]),
            (pathNow(last.procs[k]) :> [by |-> k, content |-> contentNow(last.procs[k])])
              @@ last.wrote)

InitRace ==
  /\ fs \in {diskFiles(a, <<>>, g) :
              a \in {<<>>, <<Plain>>}, g \in {<<>>, <<Unrelated>>}}
  /\ dirs = ancestors(RootSegments)
  /\ modes = defaultModes(fs)
  /\ denied = {}
  /\ last = NoCall

NextRace ==
  \/ \E one \in RaceMaps, other \in RaceMaps : StartBoth(one, other)
  \/ \E k \in 1..2 : ReadStep(k)
  \/ \E k \in 1..2 : MkdirStep(k)
  \/ \E k \in 1..2 : OpenStep(k)
  \/ \E k \in 1..2 : WriteStep(k)

SpecRace == InitRace /\ [][NextRace]_vars

\* ------------------------------------------------------------- properties
\* last is the call that just settled; last.before is the disk it started
\* from, and fs, dirs are the disk it left.

\* the i-th declaration of the last call declares a sentinel
hasSentinel(i) == last.input[i].sentinel # NoSentinel

\* the i-th target's file existed before the last call, and what it held
existed(i) == last.files[i].absolutePath \in DOMAIN last.before.files

contentBefore(i) == last.before.files[last.files[i].absolutePath]

\* the i-th target's file exists after the last call, and what it holds
exists(i) == last.files[i].absolutePath \in DOMAIN fs

content(i) == fs[last.files[i].absolutePath]

\* the desired contents of the i-th target
desired(i) == last.input[i].contents.value

allUnchanged(files) == \A i \in 1..Len(files) : files[i].action = "unchanged"

noIgnoreChange(g) == ~g.updated /\ g.added = <<>> /\ g.removed = <<>>

\* the last call repeats, right after it resolved, a live call
secondCall ==
  last.status = "resolved" /\ ~last.dryRun /\ last.relation = "same"

\* C1: a second live call with the same input, right after a first one that
\* resolved, reports action unchanged for every file and an ignore result
\* with updated = false and nothing added or removed.
Idempotent ==
  secondCall => allUnchanged(last.files) /\ noIgnoreChange(last.gitignore)

resolved == last.status = "resolved"

\* the i-th target declares a sentinel that its existing, differing file
\* did not hold before the last call
leftAlone(i) ==
  /\ hasSentinel(i)
  /\ existed(i)
  /\ contentBefore(i) # desired(i)
  /\ ~includes(contentBefore(i), last.input[i].sentinel)

ignoreLines(files) ==
  IF resolveGitignorePath \in DOMAIN files
  THEN splitLines(files[resolveGitignorePath]) ELSE <<>>

licensed(i) ==
  /\ hasSentinel(i)
  /\ existed(i)
  /\ contentBefore(i) # desired(i)
  /\ includes(contentBefore(i), last.input[i].sentinel)

sentinelAbsent(i) ==
  /\ last.input[i].sentinel # NoSentinel
  /\ ~includes(last.input[i].contents.value, last.input[i].sentinel)

DryRunWritesNothing ==
  (last # NoCall /\ last.dryRun) =>
    fs = last.before.files /\ dirs = last.before.dirs

\* a dry run that reports a file created in a directory that does not
\* exist, and the ignore file updated
DryRunWitness ==
  /\ resolved
  /\ last.dryRun
  /\ last.gitignore.updated
  /\ Append(RootSegments, <<"d">>) \notin dirs
  /\ \E i \in 1..Len(last.files) :
       last.files[i].absolutePath = PathB /\ last.files[i].action = "created"

\* the report of a call: the files and the ignore result
sameReport(record, live) ==
  live.ok /\ record.files = live.files /\ record.gitignore = live.gitignore

\* C7: the result of a dry-run call equals the result a live call with the
\* same input returns from the same file-system state: the same action for
\* every file and the same updated, added, removed and skipped.
DryRunMatchesLive ==
  (resolved /\ last.dryRun) =>
    sameReport(last,
               syncConfigs(last.input, FALSE,
                           startOf(last.before, last.before.dirs, denied)))

\* C8: after a live call that tracks A and B, a following live call that
\* tracks only A reports removed = [B's entry], added = [] and updated.
Convergence ==
  (resolved /\ last.relation = "dropped" /\ Len(last.dropped) = 2
     /\ Len(last.entries) = 1 /\ last.entries[1] \in Range(last.dropped)) =>
    /\ last.gitignore.updated
    /\ last.gitignore.added = <<>>
    /\ last.gitignore.removed = without(last.dropped, last.entries)

\* the lines of the ignore file before and after the last call
linesBefore == ignoreLines(last.before.files)

linesAfter == ignoreLines(fs)

isBlank(line) == trim(line) = <<>>

\* a line that continues a block: not blank and no comment
entryLike(line) == ~isBlank(line) /\ ~startsWithHash(line)

hasMarker(lines) == \E m \in 1..Len(lines) : lines[m] = MANAGED_COMMENT

\* the first marker line
markerIndex(lines) ==
  CHOOSE m \in 1..Len(lines) :
    /\ lines[m] = MANAGED_COMMENT
    /\ \A j \in 1..(m - 1) : lines[j] # MANAGED_COMMENT

RECURSIVE markerCount(_)
markerCount(lines) ==
  IF lines = <<>> THEN 0
  ELSE (IF Head(lines) = MANAGED_COMMENT THEN 1 ELSE 0) + markerCount(Tail(lines))

\* the first line after the run of entries that follows line m
runEnd(lines, m) ==
  CHOOSE e \in (m + 1)..(Len(lines) + 1) :
    /\ \A j \in (m + 1)..(e - 1) : entryLike(lines[j])
    /\ e = Len(lines) + 1 \/ ~entryLike(lines[e])

\* the entries of the block that line m heads
blockOf(lines, m) == SubSeq(lines, m + 1, runEnd(lines, m) - 1)

\* the lines after the block that line m heads
afterBlock(lines, m) == SubSeq(lines, runEnd(lines, m), Len(lines))

\* the lines outside the managed block
outside(lines) ==
  IF hasMarker(lines)
  THEN SubSeq(lines, 1, markerIndex(lines) - 1)
       \o afterBlock(lines, markerIndex(lines))
  ELSE lines

lessOneBlank(lines) ==
  IF lines # <<>> /\ isBlank(Head(lines)) THEN Tail(lines) ELSE lines

\* the lines outside the managed block, less a blank line right after it
outsideLessSeparator(lines) ==
  IF hasMarker(lines)
  THEN SubSeq(lines, 1, markerIndex(lines) - 1)
       \o lessOneBlank(afterBlock(lines, markerIndex(lines)))
  ELSE lines

RECURSIVE lessTrailingBlank(_)
lessTrailingBlank(lines) ==
  IF lines # <<>> /\ isBlank(lines[Len(lines)])
  THEN lessTrailingBlank(SubSeq(lines, 1, Len(lines) - 1))
  ELSE lines

\* a occurs in b, in order
RECURSIVE isSubsequence(_, _)
isSubsequence(a, b) ==
  IF a = <<>> THEN TRUE
  ELSE IF b = <<>> THEN FALSE
  ELSE IF Head(a) = Head(b) THEN isSubsequence(Tail(a), Tail(b))
  ELSE isSubsequence(a, Tail(b))

\* the last call rewrote the ignore file
rewrote == resolved /\ ~last.dryRun /\ last.gitignore.updated

\* the lines the rewritten file holds before the block written last
keptLines == SubSeq(linesAfter, 1, Len(linesAfter) - 1 - Len(last.entries))

\* C9 as stated: whenever syncGitignore rewrites the ignore file, every line
\* outside the managed block, blank lines included, is in the output with
\* the same text and in the same relative order.
UnrelatedPreserved ==
  rewrote => isSubsequence(outside(linesBefore), linesAfter)

\* C9, amended: whenever syncGitignore rewrites the ignore file, every line
\* outside the managed block is in the output with the same text and in the
\* same relative order, path-like lines, comments and blank lines included,
\* except one blank line right after the old block and the blank lines that
\* end what remains, which are dropped.
UnrelatedKept ==
  rewrote =>
    lessTrailingBlank(keptLines)
      = lessTrailingBlank(outsideLessSeparator(linesBefore))

\* a rewrite of a file that holds an unrelated line before the block and a
\* comment after it
UnrelatedKeptWitness ==
  /\ rewrote
  /\ Len(linesBefore) = 3
  /\ linesBefore[1] = <<"k">>
  /\ linesBefore[2] = MANAGED_COMMENT
  /\ linesBefore[3] = <<HASH, "c">>
  /\ linesAfter[1] = <<"k">>
  /\ linesAfter[2] = <<HASH, "c">>

\* lines, each without the whitespace around it
trimAll(lines) == [i \in 1..Len(lines) |-> trim(lines[i])]

\* some marker line heads a block of exactly these entries
blockHolds(lines, entries) ==
  \E m \in 1..Len(lines) :
    lines[m] = MANAGED_COMMENT /\ trimAll(blockOf(lines, m)) = entries

OutsideKeys == {AbsoluteA, Above, AboveFromBelow}

declaresOutside ==
  \E i \in 1..Len(last.input) : last.input[i].rawPath \in OutsideKeys

\* the last call left every file and directory as it found them
nothingWritten == fs = last.before.files /\ dirs = last.before.dirs

\* C11: a call whose map has a key that is absolute, or that leads out of
\* the root directory through '..', is rejected as a whole, and no file is
\* written: no target, valid ones declared before it included, and not
\* the ignore file.
RootEscapeRejected ==
  (last # NoCall /\ declaresOutside)
    => (last.status = "rejected" /\ nothingWritten)

\* a live call is rejected for its second key, 'd/../../x', after a first
\* declaration of a valid target whose file is missing
RootEscapeRejectedWitness ==
  /\ last # NoCall
  /\ last.status = "rejected"
  /\ ~last.dryRun
  /\ Len(last.input) = 2
  /\ last.input[1] = Entry(TargetA, Text(Plain), TRUE)
  /\ last.input[2].rawPath = AboveFromBelow
  /\ PathA \notin DOMAIN last.before.files
  /\ last.error = "must reside within the root directory"

\* the action that the prior state of the i-th target's file calls for
actionDue(i) ==
  IF ~existed(i) THEN "created"
  ELSE IF contentBefore(i) # desired(i) THEN "updated"
  ELSE "unchanged"

\* the i-th target's file is, after the last call, what it was before
untouched(i) ==
  IF existed(i) THEN exists(i) /\ content(i) = contentBefore(i)
  ELSE ~exists(i)

\* C12: for a target without a sentinel the action is created when the file
\* did not exist, updated when it held another content than the desired
\* one, unchanged when it held the desired content; after a live call with
\* action created or updated the file holds exactly the desired content,
\* and with action unchanged the file is not written.
ActionByPriorState ==
  resolved =>
    \A i \in 1..Len(last.files) :
      ~hasSentinel(i) =>
        /\ last.files[i].action = actionDue(i)
        /\ (~last.dryRun /\ last.files[i].action \in {"created", "updated"})
             => (exists(i) /\ content(i) = desired(i))
        /\ last.files[i].action = "unchanged" => untouched(i)

\* an entry anchored to the root: '/' and then a path
anchored(entry) == Len(entry) > 1 /\ Head(entry) = SLASH

\* the entry is '/' followed by the path of a target the last call tracks
anchorsTracked(entry) ==
  \E i \in 1..Len(last.files) :
    last.files[i].gitignored /\ entry = <<SLASH>> \o last.files[i].path

\* the entries of the block that the last call wrote at the end of the file
writtenBlock ==
  SubSeq(linesAfter, Len(linesAfter) - Len(last.entries) + 1, Len(linesAfter))

\* C13: every entry of the managed block, and every entry reported in
\* gitignore.added and gitignore.removed, is the normalized root-relative
\* path of a tracked target prefixed with '/'.
EntriesAnchored ==
  resolved =>
    /\ \A k \in 1..Len(last.gitignore.added) :
         anchorsTracked(last.gitignore.added[k])
    /\ \A k \in 1..Len(last.gitignore.removed) :
         anchored(last.gitignore.removed[k])
    /\ rewrote =>
         \A k \in 1..Len(writtenBlock) : anchorsTracked(writtenBlock[k])

\* the i-th declaration of the last call says gitignore: false
optedOut(i) == last.input[i].gitignore = FALSE

\* some managed block of these lines lists the path
listed(lines, path) ==
  \E m \in 1..Len(lines) :
    /\ lines[m] = MANAGED_COMMENT
    /\ path \in Range(trimAll(blockOf(lines, m)))

noneTracked == \A i \in 1..Len(last.input) : optedOut(i)

\* the ignore file is, after the last call, what it was before
ignoreFileAsBefore ==
  IF resolveGitignorePath \in DOMAIN last.before.files
  THEN /\ resolveGitignorePath \in DOMAIN fs
       /\ fs[resolveGitignorePath] = last.before.files[resolveGitignorePath]
  ELSE resolveGitignorePath \notin DOMAIN fs

\* C15: when no target is tracked (no targets, or all opted out), the
\* ignore result is skipped = true, updated = false, added = [],
\* removed = [], and the ignore file is neither read, created nor modified,
\* whatever it held before.
EmptySetSkips ==
  (resolved /\ noneTracked) =>
    /\ last.gitignore.skipped
    /\ ~last.gitignore.updated
    /\ last.gitignore.added = <<>>
    /\ last.gitignore.removed = <<>>
    /\ resolveGitignorePath \notin last.reads
    /\ ignoreFileAsBefore

\* a live call whose only target opted out, from an ignore file whose
\* block lists that target
EmptySetSkipsWitness ==
  /\ resolved
  /\ ~last.dryRun
  /\ Len(last.input) = 1
  /\ optedOut(1)
  /\ last.files[1].action = "created"
  /\ listed(linesBefore, last.files[1].path)
  /\ last.gitignore.skipped

\* the ignore file after the last call, as written
textAfter == fs[resolveGitignorePath]

\* the text ends with one newline and not with two
endsWithOneNewline(text) ==
  /\ Len(text) >= 2
  /\ text[Len(text)] = NL
  /\ text[Len(text) - 1] # NL

\* the line of the rewritten file where the block written last begins
markerLine == Len(linesAfter) - Len(last.entries)

\* the ignore file held, before the last call, content outside its block
hadUnrelated ==
  \E j \in 1..Len(outside(linesBefore)) : ~isBlank(outside(linesBefore)[j])

\* C16: in every ignore file written by syncGitignore the marker line is
\* preceded by exactly one blank line when unrelated content precedes it
\* and by nothing when there is none, each tracked entry follows the
\* marker on a line of its own, and the file ends with exactly one newline.
BlockFormat ==
  rewrote =>
    /\ endsWithOneNewline(textAfter)
    /\ markerLine >= 1
    /\ linesAfter[markerLine] = MANAGED_COMMENT
    /\ SubSeq(linesAfter, markerLine + 1, Len(linesAfter)) = last.entries
    /\ IF hadUnrelated
       THEN /\ markerLine >= 3
            /\ linesAfter[markerLine - 1] = <<>>
            /\ ~isBlank(linesAfter[markerLine - 2])
       ELSE markerLine = 1

\* a live call rewrote an ignore file that held a block and a line of the
\* user's before it, for two tracked targets
BlockFormatWitness ==
  /\ rewrote
  /\ hasMarker(linesBefore)
  /\ hadUnrelated
  /\ Len(last.entries) = 2
  /\ markerLine = 3

\* a live call wrote the block into an ignore file of blank lines only
BlockFormatBlankWitness ==
  /\ rewrote
  /\ linesBefore # <<>>
  /\ ~hadUnrelated
  /\ ~hasMarker(linesBefore)
  /\ markerLine = 1

\* the declared keys that resolve to the root directory itself
RootKeys == {RootItself, RootFromBelow}

declaresRoot ==
  \E i \in 1..Len(last.input) : last.input[i].rawPath \in RootKeys

\* the map declares the target 'a' twice, as 'a' and as './a'
declaresTwice ==
  \E i, j \in 1..Len(last.input) :
    last.input[i].rawPath = TargetA /\ last.input[j].rawPath = DotSlashA

\* the last call was rejected by the validation of its input: not by the
\* file system, and with no file read or written
inputError ==
  /\ last.status = "rejected"
  /\ last.error \notin {"EISDIR", "EACCES"}
  /\ last.reads = {}
  /\ nothingWritten

\* a relative path that is not empty, not absolute and has no '..' segment
wellFormed(path) ==
  /\ path # <<>>
  /\ Head(path) # SLASH
  /\ \A k \in 1..Len(split(path, SLASH)) : split(path, SLASH)[k] # <<DOT, DOT>>

\* C17: every target that reaches the file reconciler has a relativePath
\* that is non-empty, not absolute, free of '..' segments and unique in the
\* call; a map in which two keys normalize to the same path, or in which a
\* key resolves to the root directory itself, is rejected as an input
\* error.
TargetsWellFormed ==
  last # NoCall =>
    /\ rootDir \notin last.reads
    /\ resolved =>
         \A i, j \in 1..Len(last.files) :
           /\ wellFormed(last.files[i].path)
           /\ i # j => last.files[i].path # last.files[j].path
    /\ (declaresTwice \/ declaresRoot) => inputError

\* the i-th declaration has a bad key or bad contents
invalidEntry(i) ==
  \/ last.input[i].rawPath \in {Blank} \cup OutsideKeys \cup RootKeys
  \/ last.input[i].contents.type \in {"other", "absent"}
  \/ last.input[i].contents \in {ReturnsPromise, ReturnsNumber}

declaresInvalid ==
  declaresTwice \/ \E i \in 1..Len(last.input) : invalidEntry(i)

\* C18: the whole map is validated before the first file system
\* operation: when the call is rejected for a bad path, a duplicate path
\* or contents that are neither a string nor a function returning a
\* string, whatever the position of the invalid entry, no file has been
\* read, created or written.
ValidationFirst ==
  (last # NoCall /\ declaresInvalid) =>
    /\ last.status = "rejected"
    /\ last.reads = {}
    /\ nothingWritten

\* ---------------------------------------------- properties of a failing disk

\* the absolute path of the i-th declared target
pathOf(i) == IF last.input[i].rawPath = TargetA THEN PathA ELSE PathB

\* a directory sat at the i-th target's path before the last call
directoryAt(i) ==
  (IF last.input[i].rawPath = TargetA THEN DirA ELSE DirB) \in last.before.dirs

\* the i-th target's file differed from its declaration before the last call
differed(i) ==
  \/ pathOf(i) \notin DOMAIN last.before.files
  \/ last.before.files[pathOf(i)] # desired(i)

\* reading the i-th target fails, or writing it does
faultAt(i) ==
  \/ directoryAt(i)
  \/ ~last.dryRun /\ pathOf(i) \in denied /\ differed(i)

\* the k-th target is the first that fails
firstFault(k) ==
  /\ k \in 1..Len(last.input)
  /\ faultAt(k)
  /\ \A i \in 1..(k - 1) : ~faultAt(i)

\* the file at the path is, after the last call, what it was before
fileAsBefore(path) ==
  IF path \in DOMAIN last.before.files
  THEN path \in DOMAIN fs /\ fs[path] = last.before.files[path]
  ELSE path \notin DOMAIN fs

\* C19: when reading or writing the k-th target fails with a file system
\* error other than not-found, the call is rejected at once: the targets
\* before the k-th keep the content written (no rollback), the k-th and
\* the targets after it are not written, the targets after it are not
\* even read, and the ignore file is not touched.
FailsAtOnce ==
  last # NoCall =>
    \A k \in 1..Len(last.input) :
      firstFault(k) =>
        /\ last.status = "rejected"
        /\ last.error \in {"EISDIR", "EACCES"}
        /\ \A i \in 1..(k - 1) :
             /\ pathOf(i) \in last.reads
             /\ ~last.dryRun
                  => (pathOf(i) \in DOMAIN fs /\ fs[pathOf(i)] = desired(i))
        /\ \A i \in k..Len(last.input) : fileAsBefore(pathOf(i))
        /\ \A i \in (k + 1)..Len(last.input) : pathOf(i) \notin last.reads
        /\ resolveGitignorePath \notin last.reads
        /\ fileAsBefore(resolveGitignorePath)

\* a live call created its first target and was rejected when the second
\* one, an existing file with another content, could not be written;
\* no ignore file was created
FailsAtOnceWitness ==
  /\ last # NoCall
  /\ last.status = "rejected"
  /\ ~last.dryRun
  /\ Len(last.input) = 2
  /\ firstFault(2)
  /\ last.error = "EACCES"
  /\ pathOf(1) \notin DOMAIN last.before.files
  /\ pathOf(1) \in DOMAIN fs
  /\ fs[pathOf(1)] = desired(1)
  /\ resolveGitignorePath \notin DOMAIN fs

\* a live call was rejected when a directory sat at its first target's
\* path, and the second target's missing file was not created
FailsAtOnceFirstWitness ==
  /\ last # NoCall
  /\ last.status = "rejected"
  /\ ~last.dryRun
  /\ Len(last.input) = 2
  /\ firstFault(1)
  /\ last.error = "EISDIR"
  /\ pathOf(2) \notin DOMAIN last.before.files
  /\ pathOf(2) \notin DOMAIN fs

\* ------------------------------------------ properties of function contents

\* the i-th declaration of the last call gives its contents by a function
isFunction(i) == last.input[i].contents.type = "function"

\* what that function returns when the last call calls it: the value next
\* in turn after the calls made of it before
valueNow(i) ==
  last.input[i].contents.returns[
    (last.input[i].contents.calls % Len(last.input[i].contents.returns)) + 1
  ].value

\* the action that the prior state of the file calls for, given that value
actionFor(i) ==
  IF ~existed(i) THEN "created"
  ELSE IF contentBefore(i) # valueNow(i) THEN "updated"
  ELSE "unchanged"

\* C20: a contents function is called exactly once per target in every
\* call that resolves, dry or live, and its value is not kept from one
\* call to the next: each call reconciles the file against the value the
\* function returns in that call.
InvokedOnce ==
  resolved =>
    \A i \in 1..Len(last.files) :
      /\ last.invoked[i] = (IF isFunction(i) THEN 1 ELSE 0)
      /\ isFunction(i) =>
           /\ last.files[i].action = actionFor(i)
           /\ ~last.dryRun => (exists(i) /\ content(i) = valueNow(i))

\* the same map is passed a second time, live: the function returned x in
\* the first call and returns y now, and the file is updated from x to y
InvokedOnceWitness ==
  /\ resolved
  /\ ~last.dryRun
  /\ last.relation = "same"
  /\ Len(last.input) = 1
  /\ isFunction(1)
  /\ last.input[1].contents.calls = 1
  /\ last.invoked[1] = 1
  /\ contentBefore(1) = Plain
  /\ valueNow(1) = Other
  /\ last.files[1].action = "updated"
  /\ content(1) = Other

\* ------------------------------------------------- properties of the modes

\* the mode of the i-th target's file before and after the last call
modeBefore(i) == last.before.modes[last.files[i].absolutePath]

modeAfter(i) == modes[last.files[i].absolutePath]

\* the i-th declaration of the last call gives a mode
declaresMode(i) == last.input[i].mode # NoMode

\* C21: the declared mode of a target is applied only when syncFile
\* creates the file (the created file has the declared mode, less the bits
\* of the umask); when the file exists and is updated, or is left
\* unchanged, its mode after the call is the mode it had before.
ModeOnlyAtCreation ==
  (resolved /\ ~last.dryRun) =>
    \A i \in 1..Len(last.files) :
      /\ last.files[i].action \in {"updated", "unchanged"}
           => modeAfter(i) = modeBefore(i)
      /\ (last.files[i].action = "created" /\ declaresMode(i))
           => modeAfter(i) = last.input[i].mode[1] \ Umask

\* a live call updated a file of mode 0644 for a target that declares mode
\* 0600, and the file still has mode 0644
ModeOnlyAtCreationWitness ==
  /\ resolved
  /\ ~last.dryRun
  /\ Len(last.files) = 1
  /\ last.files[1].action = "updated"
  /\ last.input[1].mode = <<Mode600>>
  /\ modeBefore(1) = Mode644
  /\ modeAfter(1) = Mode644
  /\ content(1) = desired(1)
  /\ contentBefore(1) # desired(1)

\* ------------------------------------------- properties of the block diff

\* the entries of the block that the ignore file held before the last
\* call: the lines after its first marker line, trimmed
existingEntries ==
  IF hasMarker(linesBefore)
  THEN trimAll(blockOf(linesBefore, markerIndex(linesBefore)))
  ELSE <<>>

\* the entries that are not in the set, in their order
RECURSIVE lessThose(_, _)
lessThose(entries, set) ==
  IF entries = <<>> THEN <<>>
  ELSE IF Head(entries) \in set THEN lessThose(Tail(entries), set)
  ELSE <<Head(entries)>> \o lessThose(Tail(entries), set)

\* C22: when syncGitignore rewrites the block, added is the desired
\* entries that the existing block does not hold, in desired order,
\* removed is the entries of the existing block that are not desired, in
\* the order of the prior block, and no entry is in both.
AddedAndRemoved ==
  (resolved /\ last.gitignore.updated) =>
    /\ last.gitignore.added = lessThose(last.entries, Range(existingEntries))
    /\ last.gitignore.removed = lessThose(existingEntries, Range(last.entries))
    /\ Range(last.gitignore.added) \cap Range(last.gitignore.removed) = {}

\* a call that tracks 'a' and 'd/b' found a block of 'k' and 'a': it adds
\* 'd/b' and removes 'k'
AddedAndRemovedWitness ==
  /\ resolved
  /\ last.gitignore.updated
  /\ existingEntries = <<<<"k">>, TargetA>>
  /\ last.entries = <<TargetA, TargetB>>
  /\ last.gitignore.added = <<TargetB>>
  /\ last.gitignore.removed = <<<<"k">>>>

\* --------------------------------------------- properties of the ordering

\* the place of a path in the order of the last call: the index of the
\* target declared at it, and one more than the last for the ignore file
rank(path) ==
  IF path = resolveGitignorePath THEN Len(last.input) + 1
  ELSE CHOOSE i \in 1..Len(last.input) : pathOf(i) = path

\* the reads and writes of files that the last call made, in their order
RECURSIVE fileOps(_)
fileOps(log) ==
  IF log = <<>> THEN <<>>
  ELSE IF Head(log).op = "mkdir" THEN fileOps(Tail(log))
  ELSE <<Head(log)>> \o fileOps(Tail(log))

\* the log reads the i-th target's file
readsTarget(log, i) ==
  \E p \in 1..Len(log) : log[p] = [op |-> "read", path |-> pathOf(i)]

\* C23: within one call the targets are reconciled one at a time in the
\* order of their declaration, and the ignore file is read and written
\* only after the last target; no operation on the ignore file comes
\* before or between the operations on targets, and result.files lists the
\* targets in the order they were processed.
TwoPhases ==
  resolved =>
    /\ \A p, q \in 1..Len(fileOps(last.log)) :
         p < q => rank(fileOps(last.log)[p].path) <= rank(fileOps(last.log)[q].path)
    /\ Len(last.files) = Len(last.input)
    /\ \A i \in 1..Len(last.input) :
         /\ readsTarget(last.log, i)
         /\ last.files[i].absolutePath = pathOf(i)

\* a live call declared 'd/b' before 'a' and wrote both and the ignore
\* file: six file operations, 'd/b' first, 'a' next, the ignore file last
TwoPhasesWitness ==
  /\ resolved
  /\ ~last.dryRun
  /\ Len(last.input) = 2
  /\ last.input[1].rawPath = TargetB
  /\ last.input[2].rawPath = TargetA
  /\ fileOps(last.log) =
       << [op |-> "read", path |-> PathB], [op |-> "write", path |-> PathB],
          [op |-> "read", path |-> PathA], [op |-> "write", path |-> PathA],
          [op |-> "read", path |-> resolveGitignorePath],
          [op |-> "write", path |-> resolveGitignorePath] >>

\* ------------------------------------------------- properties of the CLI

\* a run of the CLI has ended
ran == last.status = "ran"

\* the argument list is one that the CLI accepts
RECURSIVE argumentsValid(_)
argumentsValid(args) ==
  \/ args = <<>>
  \/ Head(args) = "--"
  \/ /\ Head(args) \in {"--dry-run", "--dryRun", "--json", "--help", "-h"}
     /\ argumentsValid(Tail(args))
  \/ /\ Head(args) \in {"--root", "--root-dir", "--gitignore",
                        "--gitignore-path", "--config"}
     /\ Len(args) >= 2
     /\ args[2] # ""
     /\ argumentsValid(Tail(Tail(args)))

\* the argument list holds one of the words
given(args, words) == \E i \in 1..Len(args) : args[i] \in words

\* the payload that the run has to load
payloadOf(args, project) ==
  IF given(args, {"--config"}) THEN project.json
  ELSE IF project.manifest = "module" THEN project.module
  ELSE [type |-> "throws"]

\* the configuration is there and is a map of entries with contents
configurationLoads(args, project) ==
  /\ payloadOf(args, project).type = "files"
  /\ \A i \in 1..Len(payloadOf(args, project).files) :
       payloadOf(args, project).files[i].contents.type # "absent"

\* syncConfigs rejects the loaded map on the disk the run started from
syncRejects(args, project, before) ==
  ~syncConfigs(payloadOf(args, project).files,
               given(args, {"--dry-run", "--dryRun"}),
               startOf(before, before.dirs, denied)).ok

\* the run meets a fatal error
fatal(args, project, before) ==
  \/ ~argumentsValid(args)
  \/ /\ ~given(args, {"--help", "-h"})
     /\ \/ ~configurationLoads(args, project)
        \/ syncRejects(args, project, before)

\* stderr holds the one line 'cpconfig: <message>'
oneFailureLine(stderr) ==
  /\ Len(stderr) = 1
  /\ Len(stderr[1]) = 3
  /\ stderr[1][1] = "cpconfig: "
  /\ stderr[1][3] = "\n"

\* C24: runCli never throws; it resolves to exit code 1 exactly when a
\* fatal error occurs (bad arguments, missing or invalid configuration,
\* module load failure, a syncConfigs rejection) and then stderr holds one
\* 'cpconfig: <message>' line; otherwise it resolves to 0, and stderr holds
\* nothing but the warnings of files.
ExitCodes ==
  ran =>
    /\ last.out.settled = "resolved"
    /\ last.out.code = (IF fatal(last.args, last.project, last.before) THEN 1 ELSE 0)
    /\ fatal(last.args, last.project, last.before) => oneFailureLine(last.out.stderr)
    /\ ~fatal(last.args, last.project, last.before) =>
         \A n \in 1..Len(last.out.stderr) :
           last.out.stderr[n][1] = "cpconfig: warning: "

\* ------------------------------------------ properties of several markers

\* the last call read the ignore file and found a marker line in it
foundMarker == resolved /\ ~last.gitignore.skipped /\ hasMarker(linesBefore)

\* the lines that followed the first block, less the separating blank line
\* and the blank lines at the end
followingLines ==
  lessTrailingBlank(lessOneBlank(afterBlock(linesBefore, markerIndex(linesBefore))))

\* C25: when the ignore file holds marker lines, only the first of them
\* and the run of entry lines right after it (up to the first blank line,
\* comment line or the end) is the managed block: entries are removed
\* from that run only, later marker lines and what follows them stay as
\* unrelated content, and a first marker with no entry after it is an
\* empty block of zero entries that the rewrite replaces, not a missing one.
FirstMarkerOnly ==
  foundMarker =>
    /\ Range(last.gitignore.removed)
         = Range(existingEntries) \ Range(last.entries)
    /\ existingEntries = <<>> =>
         /\ last.gitignore.removed = <<>>
         /\ last.gitignore.added = last.entries
         /\ last.gitignore.updated
    /\ rewrote =>
         /\ markerCount(linesAfter) = markerCount(linesBefore)
         /\ isSubsequence(followingLines, keptLines)

\* a rewrite of the file of two marker lines and 'd/b' by a call that
\* tracks 'a': nothing is removed, and the second marker and 'd/b' stay
FirstMarkerOnlyWitness ==
  /\ rewrote
  /\ linesBefore = <<MANAGED_COMMENT, MANAGED_COMMENT, TargetB>>
  /\ last.entries = <<TargetA>>
  /\ last.gitignore.removed = <<>>
  /\ last.gitignore.added = <<TargetA>>
  /\ keptLines = <<MANAGED_COMMENT, TargetB, <<>> >>
  /\ markerCount(linesAfter) = 2

\* ------------------------------------- properties of the block comparison

\* the last call wrote the ignore file
wroteIgnoreFile ==
  \E p \in 1..Len(last.log) :
    last.log[p] = [op |-> "write", path |-> resolveGitignorePath]

\* C26: syncGitignore compares the entries of the existing block with the
\* desired entries as ordered sequences: when they are identical it
\* reports updated = false with added and removed empty and skipped false
\* and writes nothing, live or not; when they hold the same entries in
\* another order, or the existing block repeats an entry, it reports
\* updated = true with added and removed both empty, and a live call
\* rewrites the file.
OrderedComparison ==
  (resolved /\ ~last.gitignore.skipped) =>
    /\ last.gitignore.added = <<>> /\ last.gitignore.removed = <<>>
         <=> Range(existingEntries) = Range(last.entries)
    /\ existingEntries = last.entries =>
         /\ ~last.gitignore.updated
         /\ last.gitignore.added = <<>>
         /\ last.gitignore.removed = <<>>
         /\ ~wroteIgnoreFile
         /\ linesAfter = linesBefore
    /\ (existingEntries # last.entries
        /\ Range(existingEntries) = Range(last.entries)) =>
         /\ last.gitignore.updated
         /\ last.gitignore.added = <<>>
         /\ last.gitignore.removed = <<>>
         /\ wroteIgnoreFile <=> ~last.dryRun

\* a live call that tracks 'a' and 'd/b' found the block 'd/b', 'a': it
\* rewrote the file and reports nothing added and nothing removed
OrderedComparisonWitness ==
  /\ rewrote
  /\ linesBefore = <<MANAGED_COMMENT, TargetB, TargetA>>
  /\ last.entries = <<TargetA, TargetB>>
  /\ last.gitignore.added = <<>>
  /\ last.gitignore.removed = <<>>
  /\ linesAfter = <<MANAGED_COMMENT, TargetA, TargetB>>

\* ------------------------------------ properties of two invocations

\* both invocations have returned
bothReturned ==
  /\ last.status = "racing"
  /\ \A k \in 1..2 : last.procs[k].pc = "done"

\* invocation k declares a target at the path
declaredBy(k, path) ==
  \E i \in 1..Len(last.procs[k].files) :
    last.procs[k].files[i].absolutePath = path

\* the contents that the two invocations declare for the path
desiredAt(path) ==
  UNION {{last.procs[k].files[i].contents :
            i \in {j \in 1..Len(last.procs[k].files) :
                     last.procs[k].files[j].absolutePath = path}} :
           k \in 1..2}

\* the ignore file holds one block, of the entries of the invocation
\* that wrote it last
oneBlockOfWriter ==
  /\ markerCount(ignoreLines(fs)) = 1
  /\ blockHolds(ignoreLines(fs),
                uniqueEntriesOf(last.procs[last.wrote[resolveGitignorePath].by]))

\* C27: when two invocations run at once on the same root with their
\* reads and writes interleaved in any order, each file ends with the
\* whole content written by the invocation that wrote it last: a target
\* that both declare holds the desired content of one of them, and the
\* ignore file is the complete rewrite of one of them, with one managed
\* block of that invocation's entries and no mixture of the two sets.
LastWriteWins ==
  bothReturned =>
    /\ \A path \in DOMAIN last.wrote : fs[path] = last.wrote[path].content
    /\ \A path \in {PathA, PathB} :
         (declaredBy(1, path) /\ declaredBy(2, path)) => fs[path] \in desiredAt(path)
    /\ resolveGitignorePath \in DOMAIN last.wrote => oneBlockOfWriter

\* -------------------------------------- properties of what a call leaves

\* C28: when a live call has resolved, every declared target that it
\* did not leave alone holds exactly its desired contents: the rewrite
\* of the ignore file at the end never changes a declared target, also
\* when a target's path is the path of the ignore file.
DesiredAfterCall ==
  (resolved /\ ~last.dryRun) =>
    \A i \in 1..Len(last.files) :
      last.files[i].managed => exists(i) /\ content(i) = desired(i)

\* a target of the last call is declared at the path
declaredAt(path) ==
  \E i \in 1..Len(last.files) : last.files[i].absolutePath = path

\* the file at the path is, after the last call, what it was before
keptAsItWas(path) ==
  /\ path \in DOMAIN last.before.files
  /\ path \in DOMAIN fs
  /\ fs[path] = last.before.files[path]

\* C29: a call creates or modifies only the files of its declared
\* targets, their missing parent directories and the ignore file, and
\* deletes nothing: every other file, such as one that an earlier call
\* wrote for a target no longer declared, stays with its content, also
\* when its entry is removed from the managed block.
OnlyDeclaredTouched ==
  resolved =>
    /\ DOMAIN last.before.files \subseteq DOMAIN fs
    /\ last.before.dirs \subseteq dirs
    /\ \A path \in DOMAIN fs :
         declaredAt(path) \/ path = resolveGitignorePath \/ keptAsItWas(path)
    /\ \A d \in dirs \ last.before.dirs :
         d = Append(RootSegments, <<"d">>) /\ declaredAt(PathB)

\* a live call whose map no longer declares 'a': the entry 'a' is removed
\* from the block, and the file 'a' stays as the earlier call wrote it
OnlyDeclaredTouchedWitness ==
  /\ resolved
  /\ last.relation = "dropped"
  /\ ~declaredAt(PathA)
  /\ keptAsItWas(PathA)
  /\ TargetA \in Range(last.gitignore.removed)
  /\ last.gitignore.updated

\* ---------------------------------------- properties of the escape check

\* the relative keys of the model that lead out of the root directory
EscapingKeys == {Above, AboveFromBelow}

\* the relative keys of the model that resolve to a place strictly inside
\* the root directory
InsideKeys == {TargetA, TargetB, DotSlashA, DotDotName}

\* every declaration of the last call has a key inside the root and a
\* string as contents, and no two keys name the same path
allInside ==
  /\ last # NoCall
  /\ ~declaresTwice
  /\ \A i \in 1..Len(last.input) :
       /\ last.input[i].rawPath \in InsideKeys
       /\ last.input[i].contents.type = "string"

\* C30: the root-escape check rejects a relative key only when the key
\* resolves outside the root directory: every relative key that resolves
\* to a place strictly inside it is accepted, a key whose first segment
\* merely begins with two dots ('..c') included.
EscapeOnlyOutside ==
  /\ (last # NoCall /\ last.status = "rejected"
       /\ last.error = "must reside within the root directory")
      => \E i \in 1..Len(last.input) : last.input[i].rawPath \in EscapingKeys
  /\ allInside => last.status = "resolved"

====
